---- MODULE Spec2Model ----
(***************************************************************************)
(* Verification model of the learning-roadmap system                       *)
(* (src/learning_roadmap.py, src/react_roadmap_parser.py,                  *)
(* src/roadmap_generator.py).                                              *)
(*                                                                         *)
(* Strings are sequences of lexical units.  A unit is one character, or a  *)
(* fixed multi-character word ("filename:", "unknown", ...) that the code  *)
(* only ever handles as a whole.  Floats are exact rationals <<n, d>>.     *)
(***************************************************************************)
EXTENDS Integers, Sequences, FiniteSets, TLC

VARIABLES
    \* calculate_similarity(query, chunk_content)
    simQuery, simContent, simResult, simSwapped,
    \* tagging: the object heap (lists, metadata dicts), one document's chunk
    \* list, the upload step, calls of apply_tags_to_chunk and search_chunks_by_tags
    hashSeed, lists, dicts, docChunks, uploaded, applyCall, applyAgain, tagSearch,
    \* search_and_generate_html(query, roadmap_documents, threshold) and its result
    searchQuery, searchDocs, searchThreshold, searchOut,
    \* one rendering: the input text and URL, whether resources carry links,
    \* and the rendered document
    renderText, renderUrl, renderLinks, renderOut,
    \* parse_html_sections(html_content, roadmap_id): the document, the
    \* exception planned for the run, and the outcome
    parseDoc, parseFault, parseOut,
    \* convert_chunks_to_roadmap_data(chunks, main_topic) and its result
    convertChunks, convertOut,
    \* the node store: its points, its encoder and logger, the effects of
    \* the update_node calls, the values they returned, and the latest
    \* get_subtree call
    storePoints, storeEncoder, storeLogger, storeEffects, storeReturns, storeSubtree,
    \* the session state and the suggest_tags_for_chunk calls made in it
    session, suggestCalls,
    \* _build_hierarchy(nodes) and its result
    hierarchyNodes, hierarchyOut,
    \* the batch run: the lines the subprocess writes, what goes wrong, the
    \* lines read so far, the thread, the queue q, the log, the loop
    streamOutput, streamFault, streamRead, producerPc, streamQ, log_lines, consumerPc,
    \* a ReactRoadmapParser: its document, self.nodes, self.current_order, and
    \* the number of parse() calls made on it
    legacyDoc, legacyNodes, legacyOrder, legacyCalls

scoreVars == <<simQuery, simContent, simResult, simSwapped>>
tagVars == <<hashSeed, lists, dicts, docChunks, uploaded, applyCall, applyAgain, tagSearch>>
searchVars == <<searchQuery, searchDocs, searchThreshold, searchOut>>
renderVars == <<renderText, renderUrl, renderLinks, renderOut>>
parseVars == <<parseDoc, parseFault, parseOut>>
convertVars == <<convertChunks, convertOut>>
storeVars == <<storePoints, storeEncoder, storeLogger, storeEffects, storeReturns,
              storeSubtree>>
suggestVars == <<session, suggestCalls>>
hierarchyVars == <<hierarchyNodes, hierarchyOut>>
streamVars == <<streamOutput, streamFault, streamRead, producerPc, streamQ, log_lines, consumerPc>>
legacyVars == <<legacyDoc, legacyNodes, legacyOrder, legacyCalls>>
vars == <<scoreVars, tagVars, searchVars, renderVars, parseVars, convertVars, storeVars, suggestVars, hierarchyVars, streamVars, legacyVars>>
exceptScore == <<tagVars, searchVars, renderVars, parseVars, convertVars, storeVars, suggestVars, hierarchyVars, streamVars, legacyVars>>
exceptTags == <<scoreVars, searchVars, renderVars, parseVars, convertVars, storeVars, suggestVars, hierarchyVars, streamVars, legacyVars>>
exceptSearch == <<scoreVars, tagVars, renderVars, parseVars, convertVars, storeVars, suggestVars, hierarchyVars, streamVars, legacyVars>>
exceptRender == <<scoreVars, tagVars, searchVars, parseVars, convertVars, storeVars, suggestVars, hierarchyVars, streamVars, legacyVars>>
exceptParse == <<scoreVars, tagVars, searchVars, renderVars, convertVars, storeVars, suggestVars, hierarchyVars, streamVars, legacyVars>>
exceptConvert == <<scoreVars, tagVars, searchVars, renderVars, parseVars, storeVars, suggestVars, hierarchyVars, streamVars, legacyVars>>
exceptStore == <<scoreVars, tagVars, searchVars, renderVars, parseVars, convertVars, suggestVars, hierarchyVars, streamVars, legacyVars>>
exceptSuggest == <<scoreVars, tagVars, searchVars, renderVars, parseVars, convertVars, storeVars, hierarchyVars, streamVars, legacyVars>>
exceptHierarchy == <<scoreVars, tagVars, searchVars, renderVars, parseVars, convertVars, storeVars, suggestVars, streamVars, legacyVars>>
exceptStream == <<scoreVars, tagVars, searchVars, renderVars, parseVars, convertVars, storeVars, suggestVars, hierarchyVars, legacyVars>>
exceptLegacy == <<scoreVars, tagVars, searchVars, renderVars, parseVars, convertVars, storeVars, suggestVars, hierarchyVars, streamVars>>

(***************************************************************************)
(* Bounds of the model                                                     *)
(***************************************************************************)
MaxStrLen == 3
MaxCustomTags == 2
MaxSuppliedTags == 2
MaxSearchChunks == 2

(***************************************************************************)
(* Python str: lower(), split(), startswith()                              *)
(***************************************************************************)
Letters == {"a", "A", "b"}
Spaces == {" "}
Chars == Letters \cup Spaces

RECURSIVE StringsUpTo(_, _)
StringsUpTo(alphabet, n) ==
    IF n = 0 THEN {<<>>}
    ELSE LET shorter == StringsUpTo(alphabet, n - 1)
         IN  shorter \cup {Append(s, c) : s \in shorter, c \in alphabet}

ToSet(seq) == {seq[i] : i \in DOMAIN seq}

LowerChar(c) ==
    CASE c = "A" -> "a"
      [] c = "<SCRIPT>" -> "<script>"
      [] c = "Filename:" -> "filename:"
      [] c = "Source:" -> "source:"
      [] c = "F.html" -> "f.html"
      [] c = "React" -> "react"
      [] c = "Advanced" -> "advanced"
      [] c = "UNKNOWN" -> "unknown"
      [] OTHER -> c

Lower(s) == [i \in DOMAIN s |-> LowerChar(s[i])]

IsSpace(c) == c \in Spaces

\* str.split() with no separator: the maximal runs of non-whitespace units, in order
RECURSIVE SplitFrom(_, _, _, _)
SplitFrom(s, i, cur, acc) ==
    IF i > Len(s)
    THEN IF cur = <<>> THEN acc ELSE Append(acc, cur)
    ELSE IF IsSpace(s[i])
         THEN SplitFrom(s, i + 1, <<>>, IF cur = <<>> THEN acc ELSE Append(acc, cur))
         ELSE SplitFrom(s, i + 1, Append(cur, s[i]), acc)

Split(s) == SplitFrom(s, 1, <<>>, <<>>)

(***************************************************************************)
(* Floats as exact rationals <<numerator, denominator>>, denominator > 0   *)
(***************************************************************************)
FZero == <<0, 1>>
FOne == <<1, 1>>
FEq(a, b) == a[1] * b[2] = b[1] * a[2]
FGe(a, b) == a[1] * b[2] >= b[1] * a[2]
FGt(a, b) == a[1] * b[2] > b[1] * a[2]

(***************************************************************************)
(* calculate_similarity                                                    *)
(***************************************************************************)
calculate_similarity_no_lower(query, chunk_content) ==
    LET query_words == ToSet(Split(query))
        content_words == ToSet(Split(chunk_content))
    IN  IF query_words = {} \/ content_words = {}
        THEN FZero
        ELSE <<Cardinality(query_words \cap content_words),
               Cardinality(query_words \cup content_words)>>

calculate_similarity(query, chunk_content) ==
    LET query_words == ToSet(Split(Lower(query)))
        content_words == ToSet(Split(Lower(chunk_content)))
    IN  IF query_words = {} \/ content_words = {}
        THEN FZero
        ELSE LET intersection == query_words \cap content_words
                 union == query_words \cup content_words
             IN  IF union # {}
                 THEN <<Cardinality(intersection), Cardinality(union)>>
                 ELSE FZero

NoResult == <<>>

\* one call calculate_similarity(query, content)
CalculateSimilarity ==
    /\ UNCHANGED exceptScore
    /\ simResult = NoResult
    /\ simResult' = calculate_similarity(simQuery, simContent)
    /\ UNCHANGED <<simQuery, simContent, simSwapped>>

\* the call with the two arguments exchanged
CalculateSimilaritySwapped ==
    /\ UNCHANGED exceptScore
    /\ simSwapped = NoResult
    /\ simSwapped' = calculate_similarity(simContent, simQuery)
    /\ UNCHANGED <<simQuery, simContent, simResult>>

ScoreNext ==
    \/ CalculateSimilarity
    \/ CalculateSimilaritySwapped

(***************************************************************************)
(* Python objects.  Lists and metadata dicts live on a heap and are held   *)
(* by reference, so that aliasing and in-place mutation are visible:       *)
(* lists[r] is the list object r, dicts[r] the dict object r.  A chunk     *)
(* (RoadmapChunk) is a record whose list- and dict-valued fields are       *)
(* references.                                                             *)
(***************************************************************************)
None == [none |-> TRUE, v |-> <<>>]
Some(v) == [none |-> FALSE, v |-> v]
\* truth value of an optional list argument: None and [] are falsy
Truthy(arg) == ~arg.none /\ arg.v # <<>>

RECURSIVE DedupKeepFirst(_, _)
DedupKeepFirst(seq, acc) ==
    IF seq = <<>> THEN acc
    ELSE DedupKeepFirst(Tail(seq),
                        IF Head(seq) \in ToSet(acc) THEN acc ELSE Append(acc, Head(seq)))

Reverse(seq) == [i \in DOMAIN seq |-> seq[Len(seq) + 1 - i]]

\* list(set(seq)): the distinct elements of seq, in the iteration order of
\* the process's string hashing (fixed for one process, arbitrary across them)
ListOfSet(seed, seq) ==
    LET d == DedupKeepFirst(seq, <<>>)
    IN  IF seed = 0 THEN d ELSE Reverse(d)

HasDuplicates(seq) == \E i, j \in DOMAIN seq : i # j /\ seq[i] = seq[j]

\* list.copy() of the list object ref: a new object with the same items
CopyListAlias(l, ref) == [lists |-> l, ref |-> ref]

CopyList(l, ref) == [lists |-> Append(l, l[ref]), ref |-> Len(l) + 1]

\* the value of a chunk: every reference replaced by the object it names
DerefChunk(l, d, chunk) ==
    [id |-> chunk.id,
     roadmap_id |-> chunk.roadmap_id,
     content |-> chunk.content,
     html_fragment |-> chunk.html_fragment,
     embedding |-> l[chunk.embedding],
     chunk_index |-> chunk.chunk_index,
     metadata |-> [section |-> d[chunk.metadata].section,
                   level |-> d[chunk.metadata].level,
                   category |-> d[chunk.metadata].category,
                   type |-> d[chunk.metadata].type,
                   keywords |-> l[d[chunk.metadata].keywords]],
     collection_tags |-> l[chunk.collection_tags],
     search_tags |-> l[chunk.search_tags]]

(***************************************************************************)
(* apply_tags_to_chunk: the heap after the call and the returned chunk     *)
(***************************************************************************)
apply_tags_to_chunk(seed, l0, d0, chunk, custom_collection_tags, custom_search_tags) ==
    LET \* updated_collection_tags = chunk.collection_tags.copy()
        c1 == CopyList(l0, chunk.collection_tags)
        \* updated_search_tags = chunk.search_tags.copy()
        c2 == CopyList(c1.lists, chunk.search_tags)
        \* if custom_collection_tags: extend in place, then rebind to list(set(...))
        l3 == IF Truthy(custom_collection_tags)
              THEN LET ext == [c2.lists EXCEPT ![c1.ref] = @ \o custom_collection_tags.v]
                   IN  Append(ext, ListOfSet(seed, ext[c1.ref]))
              ELSE c2.lists
        updated_collection_tags == IF Truthy(custom_collection_tags) THEN Len(l3) ELSE c1.ref
        \* if custom_search_tags: likewise
        l4 == IF Truthy(custom_search_tags)
              THEN LET ext == [l3 EXCEPT ![c2.ref] = @ \o custom_search_tags.v]
                   IN  Append(ext, ListOfSet(seed, ext[c2.ref]))
              ELSE l3
        updated_search_tags == IF Truthy(custom_search_tags) THEN Len(l4) ELSE c2.ref
        \* updated_metadata = chunk.metadata.copy(), a shallow copy; with search
        \* tags its "keywords" is rebound to list(set(existing + custom))
        l5 == IF Truthy(custom_search_tags)
              THEN Append(l4, ListOfSet(seed, l4[d0[chunk.metadata].keywords]
                                              \o custom_search_tags.v))
              ELSE l4
        d1 == Append(d0, IF Truthy(custom_search_tags)
                         THEN [d0[chunk.metadata] EXCEPT !.keywords = Len(l5)]
                         ELSE d0[chunk.metadata])
    IN  [lists |-> l5,
         dicts |-> d1,
         ret |-> [chunk EXCEPT !.metadata = Len(d1),
                               !.collection_tags = updated_collection_tags,
                               !.search_tags = updated_search_tags]]

(***************************************************************************)
(* search_chunks_by_tags                                                   *)
(***************************************************************************)
\* the loop over chunks: matched_chunks.append(chunk) for every chunk whose
\* test (flags[i]) is true
RECURSIVE MatchedChunks(_, _, _, _)
MatchedChunks(chunks, flags, i, matched_chunks) ==
    IF i > Len(chunks) THEN matched_chunks
    ELSE MatchedChunks(chunks, flags, i + 1,
                       IF flags[i] THEN Append(matched_chunks, chunks[i])
                       ELSE matched_chunks)

search_chunks_by_tags_case_sensitive(l, chunks, search_tags, tag_type) ==
    IF search_tags = <<>> THEN chunks
    ELSE LET chunk_tags(chunk) == IF tag_type = "collection"
                                  THEN l[chunk.collection_tags]
                                  ELSE l[chunk.search_tags]
             matches(chunk) == \E i \in DOMAIN search_tags :
                                  search_tags[i] \in ToSet(chunk_tags(chunk))
         IN  MatchedChunks(chunks, [i \in DOMAIN chunks |-> matches(chunks[i])], 1, <<>>)

search_chunks_by_tags(l, chunks, search_tags, tag_type) ==
    IF search_tags = <<>> THEN chunks
    ELSE LET chunk_tags(chunk) == IF tag_type = "collection"
                                  THEN l[chunk.collection_tags]
                                  ELSE l[chunk.search_tags]
             matches(chunk) ==
                 \E i \in DOMAIN search_tags :
                     Lower(search_tags[i]) \in {Lower(ct) : ct \in ToSet(chunk_tags(chunk))}
         IN  MatchedChunks(chunks, [i \in DOMAIN chunks |-> matches(chunks[i])], 1, <<>>)

(***************************************************************************)
(* The tagging flow of the application: a parsed document is uploaded      *)
(* (file-name and custom tags appended in place to every chunk), chunks    *)
(* are filtered by tag and re-tagged through apply_tags_to_chunk.          *)
(***************************************************************************)
RoadmapId == <<"roadmap">>
FileName == <<"f.html">>
UploadTagPool == {<<"React">>, <<"unknown">>}
SuppliedTagPool == {<<"React">>, <<"css">>}
FilterTagPool == {<<"branch-", "react">>, <<"UNKNOWN">>}

\* the chunk list, with its heap, of a document without recoverable structure
\* (_create_fallback_chunk)
FallbackDocument ==
    [lists |-> << <<>>, <<>>, << <<"unknown">> >>, << <<"unknown">> >> >>,
     dicts |-> << [section |-> <<"title">>, level |-> 1, category |-> "unknown",
                   type |-> "fallback", keywords |-> 2] >>,
     chunks |-> << [id |-> RoadmapId \o <<"_fallback">>, roadmap_id |-> RoadmapId,
                    content |-> <<"text">>, html_fragment |-> <<"text">>,
                    embedding |-> 1, chunk_index |-> 0, metadata |-> 1,
                    collection_tags |-> 3, search_tags |-> 4] >>]

\* the chunk list of a document with one level holding one branch
\* (_parse_structured_content)
StructuredDocument ==
    [lists |-> << <<>>, << <<"react">> >>,
                  << <<"level-community">> >>, << <<"level-community">> >>,
                  <<>>, << <<"react">> >>,
                  << <<"branch-", "React">> >>, << <<"branch-", "React">> >> >>,
     dicts |-> << [section |-> <<"React">>, level |-> 1, category |-> "community",
                   type |-> "level", keywords |-> 2],
                  [section |-> <<"React">>, level |-> 1, category |-> "community",
                   type |-> "branch", keywords |-> 6] >>,
     chunks |-> << [id |-> RoadmapId \o <<"_level_", "0">>, roadmap_id |-> RoadmapId,
                    content |-> <<"React", " - ", "community", " 단계">>,
                    html_fragment |-> <<"<div>", "React", "</div>">>,
                    embedding |-> 1, chunk_index |-> 0, metadata |-> 1,
                    collection_tags |-> 3, search_tags |-> 4],
                   [id |-> RoadmapId \o <<"_branch_", "0", "_", "0">>, roadmap_id |-> RoadmapId,
                    content |-> <<"React">>,
                    html_fragment |-> <<"<div>", "React", "</div>">>,
                    embedding |-> 5, chunk_index |-> 1, metadata |-> 2,
                    collection_tags |-> 7, search_tags |-> 8] >>]

NoCall == [called |-> FALSE]

\* the upload flow: "filename:" and "source:" tags, then the custom tags of the
\* form, are appended in place to both tag lists of every chunk
RECURSIVE UploadAppend(_, _, _)
UploadAppend(l, chunks, extra) ==
    IF chunks = <<>> THEN l
    ELSE LET chunk == Head(chunks)
             l1 == [l EXCEPT ![chunk.collection_tags] = @ \o extra]
             l2 == [l1 EXCEPT ![chunk.search_tags] = @ \o extra]
         IN  UploadAppend(l2, Tail(chunks), extra)

UploadTags(custom_tags) ==
    /\ UNCHANGED exceptTags
    /\ ~uploaded
    /\ uploaded' = TRUE
    /\ lists' = UploadAppend(lists, docChunks,
                             << <<"filename:">> \o FileName, <<"source:">> \o FileName >>
                             \o custom_tags)
    /\ UNCHANGED <<hashSeed, dicts, docChunks, applyCall, applyAgain, tagSearch>>

\* one call updated_chunk = apply_tags_to_chunk(chunks[idx], coll, search)
ApplyTags(idx, coll, search) ==
    /\ UNCHANGED exceptTags
    /\ uploaded
    /\ ~applyCall.called
    /\ ~tagSearch.called
    /\ LET r == apply_tags_to_chunk(hashSeed, lists, dicts, docChunks[idx], coll, search)
       IN  /\ lists' = r.lists
           /\ dicts' = r.dicts
           /\ applyCall' = [called |-> TRUE, idx |-> idx, coll |-> coll, search |-> search,
                            argBefore |-> DerefChunk(lists, dicts, docChunks[idx]),
                            argAfter |-> DerefChunk(r.lists, r.dicts, docChunks[idx]),
                            ret |-> r.ret,
                            retValue |-> DerefChunk(r.lists, r.dicts, r.ret)]
    /\ UNCHANGED <<hashSeed, docChunks, uploaded, applyAgain, tagSearch>>

\* the same call once more, with the same chunk object and the same arguments
ApplyTagsAgain ==
    /\ UNCHANGED exceptTags
    /\ applyCall.called
    /\ ~applyAgain.called
    /\ LET r == apply_tags_to_chunk(hashSeed, lists, dicts, docChunks[applyCall.idx],
                                    applyCall.coll, applyCall.search)
       IN  /\ lists' = r.lists
           /\ dicts' = r.dicts
           /\ applyAgain' = [called |-> TRUE,
                             retValue |-> DerefChunk(r.lists, r.dicts, r.ret)]
    /\ UNCHANGED <<hashSeed, docChunks, uploaded, applyCall, tagSearch>>

\* one call search_chunks_by_tags(document.chunks, tags, tag_type)
SearchChunksByTags(tags, tag_type) ==
    /\ UNCHANGED exceptTags
    /\ ~tagSearch.called
    /\ ~applyCall.called
    /\ tagSearch' = [called |-> TRUE, lists |-> lists, chunks |-> docChunks, tags |-> tags,
                     tag_type |-> tag_type,
                     ret |-> search_chunks_by_tags(lists, docChunks, tags, tag_type)]
    /\ UNCHANGED <<hashSeed, lists, dicts, docChunks, uploaded, applyCall, applyAgain>>

OptionalTagLists == {None} \cup {Some(s) : s \in StringsUpTo(SuppliedTagPool, MaxSuppliedTags)}

TagNext ==
    \/ \E custom \in StringsUpTo(UploadTagPool, MaxCustomTags) : UploadTags(custom)
    \/ \E idx \in DOMAIN docChunks, coll \in OptionalTagLists, search \in OptionalTagLists :
          ApplyTags(idx, coll, search)
    \/ ApplyTagsAgain
    \/ \E tags \in StringsUpTo(FilterTagPool, MaxSuppliedTags),
          tag_type \in {"collection", "search"} :
          SearchChunksByTags(tags, tag_type)

(***************************************************************************)
(* search_and_generate_html: scoring, ranking, deduplication, grouping     *)
(***************************************************************************)
TopK == 20
CategoryCap == 8
ContentPreviewLen == 150
ResourceCap == 3
ToolCap == 3
ObjectiveCap == 2

Min(a, b) == IF a < b THEN a ELSE b
Take(seq, n) == SubSeq(seq, 1, Min(n, Len(seq)))

\* str.startswith(prefix)
StartsWith(s, prefix) ==
    Len(s) >= Len(prefix) /\ SubSeq(s, 1, Len(prefix)) = prefix

is_filename_search(query) ==
    StartsWith(query, <<"filename:">>) \/ StartsWith(query, <<"source:">>)

\* the similarity the loop assigns to one chunk
ChunkSimilarityContentOnly(query, chunk) ==
    calculate_similarity(query, chunk.content)

ChunkSimilarity(query, chunk) ==
    IF is_filename_search(query)
    THEN IF query \in ToSet(chunk.collection_tags) \/ query \in ToSet(chunk.search_tags)
         THEN <<1, 1>>
         ELSE IF Lower(query) \in {Lower(tag) : tag \in ToSet(chunk.collection_tags \o chunk.search_tags)}
              THEN <<4, 5>>
              ELSE FZero
    ELSE calculate_similarity(query, chunk.content)

\* every chunk of every document in encounter order (documents in dict order,
\* chunks in list order), with the similarity the loop computes for it;
\* encounter is the position in that order
RECURSIVE ScoreDocuments(_, _, _)
ScoreDocuments(query, documents, acc) ==
    IF documents = <<>> THEN acc
    ELSE LET document == Head(documents)
             items == [i \in DOMAIN document.chunks |->
                          [chunk |-> document.chunks[i],
                           similarity |-> ChunkSimilarity(query, document.chunks[i]),
                           document_title |-> document.title,
                           encounter |-> Len(acc) + i]]
         IN  ScoreDocuments(query, Tail(documents), acc \o items)

\* relevant_chunks: the items with similarity >= threshold
RECURSIVE KeepRelevant(_, _, _)
KeepRelevant(items, threshold, acc) ==
    IF items = <<>> THEN acc
    ELSE KeepRelevant(Tail(items), threshold,
                      IF FGe(Head(items).similarity, threshold)
                      THEN Append(acc, Head(items)) ELSE acc)

\* list.sort(key=similarity, reverse=True): descending and stable, an item
\* goes behind every item whose similarity is not lower
InsertBySimilarityAscending(sorted, item) ==
    LET p == Cardinality({i \in DOMAIN sorted : FGe(item.similarity, sorted[i].similarity)})
    IN  SubSeq(sorted, 1, p) \o <<item>> \o SubSeq(sorted, p + 1, Len(sorted))

InsertBySimilarity(sorted, item) ==
    LET p == Cardinality({i \in DOMAIN sorted : FGe(sorted[i].similarity, item.similarity)})
    IN  SubSeq(sorted, 1, p) \o <<item>> \o SubSeq(sorted, p + 1, Len(sorted))

RECURSIVE SortBySimilarity(_, _)
SortBySimilarity(items, sorted) ==
    IF items = <<>> THEN sorted
    ELSE SortBySimilarity(Tail(items), InsertBySimilarity(sorted, Head(items)))

\* unique_chunks: a dict keyed by chunk id, in insertion order; a later item
\* replaces the kept one, in place, only with a strictly higher similarity
PositionOfId(kept, id) ==
    IF \E i \in DOMAIN kept : kept[i].chunk.id = id
    THEN CHOOSE i \in DOMAIN kept : kept[i].chunk.id = id
    ELSE 0

DeduplicateStepKeepLast(kept, item) ==
    LET p == PositionOfId(kept, item.chunk.id)
    IN  IF p = 0 THEN Append(kept, item) ELSE [kept EXCEPT ![p] = item]

DeduplicateStep(kept, item) ==
    LET p == PositionOfId(kept, item.chunk.id)
    IN  IF p = 0 THEN Append(kept, item)
        ELSE IF FGt(item.similarity, kept[p].similarity)
             THEN [kept EXCEPT ![p] = item]
             ELSE kept

RECURSIVE Deduplicate(_, _)
Deduplicate(items, kept) ==
    IF items = <<>> THEN kept
    ELSE Deduplicate(Tail(items), DeduplicateStep(kept, Head(items)))

Categories == <<"beginner", "intermediate", "advanced", "community">>

\* chunk.metadata.get("category", "community").lower(), "community" when the
\* value is none of the four
BucketOfAsNamed(item) ==
    LET metadata == item.chunk.metadata
    IN  IF "category" \in DOMAIN metadata THEN metadata.category ELSE "community"

BucketOf(item) ==
    LET metadata == item.chunk.metadata
        category == LowerChar(IF "category" \in DOMAIN metadata
                              THEN metadata.category ELSE "community")
    IN  IF category \in ToSet(Categories) THEN category ELSE "community"

RECURSIVE ItemsOfBucket(_, _, _)
ItemsOfBucket(items, category, acc) ==
    IF items = <<>> THEN acc
    ELSE ItemsOfBucket(Tail(items), category,
                       IF BucketOf(Head(items)) = category
                       THEN Append(acc, Head(items)) ELSE acc)

(***************************************************************************)
(* html.escape and the rendered document.  A rendered document is the      *)
(* sequence of its pieces; a piece is template markup or the text put in   *)
(* at one interpolation site, with the input field it came from.           *)
(***************************************************************************)
EscapeUnit(c) ==
    CASE c = "<script>" -> "&lt;script&gt;"
      [] c = "<SCRIPT>" -> "&lt;SCRIPT&gt;"
      [] c = "<" -> "&lt;"
      [] c = ">" -> "&gt;"
      [] c = "&" -> "&amp;"
      [] c = "\"" -> "&quot;"
      [] c = "'" -> "&#x27;"
      [] OTHER -> c

\* html.escape(s)
Escape(s) == [i \in DOMAIN s |-> EscapeUnit(s[i])]

Markup(text) == [src |-> "template", text |-> text]
Piece(src, text) == [src |-> src, text |-> text]

\* one resource of a search result (lines 1209-1226)
RenderResource(resource) ==
    IF /\ resource.url # <<>>
       /\ resource.url # <<"#">>
       /\ (StartsWith(resource.url, <<"http://">>) \/ StartsWith(resource.url, <<"https://">>))
    THEN <<Markup(<<"<a href=">>), Piece("resource.url", Escape(resource.url)),
           Piece("resource.title", Escape(resource.title)), Markup(<<"</a>">>)>>
    ELSE <<Piece("resource.title", Escape(resource.title))>>

RECURSIVE Flatten(_)
Flatten(seqs) == IF seqs = <<>> THEN <<>> ELSE Head(seqs) \o Flatten(Tail(seqs))

\* ", ".join(parts)
RECURSIVE Join(_)
Join(parts) ==
    IF parts = <<>> THEN <<>>
    ELSE IF Len(parts) = 1 THEN parts[1]
         ELSE parts[1] \o <<", ">> \o Join(Tail(parts))

\* one search result inside its category (lines 1192-1240)
RenderItem(item) ==
    LET chunk == item.chunk
        section == chunk.metadata.section
        content == IF Len(chunk.content) > ContentPreviewLen
                   THEN SubSeq(chunk.content, 1, ContentPreviewLen) \o <<"...">>
                   ELSE chunk.content
        resources == Take(chunk.metadata.resources, ResourceCap)
        tools == Take(chunk.metadata.tools, ToolCap)
        objectives == Take(chunk.metadata.learning_objectives, ObjectiveCap)
    IN  <<Markup(<<"detail-node">>), Piece("section", Escape(section)),
          Markup(<<"detail-node">>), Piece("content", Escape(content)),
          Markup(<<"similarity-score">>)>>
        \o Flatten([i \in DOMAIN resources |-> RenderResource(resources[i])])
        \o (IF tools # <<>> THEN <<Piece("tools", Escape(Join(tools)))>> ELSE <<>>)
        \o [i \in DOMAIN objectives |-> Piece("learning_objective", Escape(objectives[i]))]

\* one category branch, present only when the bucket is not empty, with at
\* most CategoryCap of its items (lines 1177-1246)
RenderCategory(category, items) ==
    IF items = <<>> THEN <<>>
    ELSE <<Markup(<<"branch", category>>)>>
         \o Flatten([i \in DOMAIN Take(items, CategoryCap) |-> RenderItem(items[i])])
         \o <<Markup(<<"/branch", category>>)>>

\* the document of a search with results (lines 909-1246): the query goes
\* into the title, the heading, the search-info line and the root node
RenderSearch(query, unique_chunks_list, categories) ==
    <<Markup(<<"<title>">>), Piece("query", query),
      Markup(<<"<h1>">>), Piece("query", query),
      Markup(<<"search-info">>), Piece("query", query),
      Markup(<<"root-node">>), Piece("query", query),
      Markup(<<"main-branches">>)>>
    \o Flatten([i \in DOMAIN Categories |-> RenderCategory(Categories[i], categories[i])])
    \o <<Markup(<<"/main-branches">>)>>

\* search_and_generate_html(query, roadmap_documents, threshold)
search_and_generate_html(query, roadmap_documents, threshold) ==
    LET scored == ScoreDocuments(query, roadmap_documents, <<>>)
        relevant_chunks == KeepRelevant(scored, threshold, <<>>)
        sorted == SortBySimilarity(relevant_chunks, <<>>)
        top_chunks == Take(sorted, TopK)
    IN  IF top_chunks = <<>>
        THEN [called |-> TRUE, found |-> FALSE, scored |-> scored,
              relevant_chunks |-> relevant_chunks, top_chunks |-> top_chunks,
              unique_chunks_list |-> <<>>,
              categories |-> [i \in DOMAIN Categories |-> <<>>],
              html |-> <<Markup(<<"<h1>", "no results", "</h1>">>)>>]
        ELSE LET unique_chunks == Deduplicate(top_chunks, <<>>)
                 unique_chunks_list == SortBySimilarity(unique_chunks, <<>>)
                 categories == [i \in DOMAIN Categories |->
                                   ItemsOfBucket(unique_chunks_list, Categories[i], <<>>)]
             IN  [called |-> TRUE, found |-> TRUE, scored |-> scored,
                  relevant_chunks |-> relevant_chunks, top_chunks |-> top_chunks,
                  unique_chunks_list |-> unique_chunks_list,
                  categories |-> categories,
                  html |-> RenderSearch(query, unique_chunks_list, categories)]

(***************************************************************************)
(* Inputs of a search: a query, a threshold and the stored documents       *)
(***************************************************************************)
Queries ==
    {<<"react">>, <<"filename:", "f.html">>, <<"source:", "F.html">>,
     <<"Filename:", "f.html">>, <<"<script>">>}

Thresholds == {<<1, 10>>, <<1, 2>>}

\* str(n) for 0 <= n <= 99
Digit(n) == <<"0", "1", "2", "3", "4", "5", "6", "7", "8", "9">>[n + 1]
Dec(n) == IF n < 10 THEN <<Digit(n)>> ELSE <<Digit(n \div 10), Digit(n % 10)>>

\* the category argument of a chunk whose metadata has no "category" key
NoCategory == "(no category)"

SearchChunk(id, content, collection_tags, search_tags, category) ==
    [id |-> id, roadmap_id |-> RoadmapId, content |-> content,
     metadata |-> IF category = NoCategory
                  THEN [section |-> content,
                        resources |-> <<>>, tools |-> <<>>, learning_objectives |-> <<>>]
                  ELSE [section |-> content, category |-> category,
                        resources |-> <<>>, tools |-> <<>>, learning_objectives |-> <<>>],
     collection_tags |-> collection_tags, search_tags |-> search_tags]

\* a chunk that matches the query fully: its content is the query text and it
\* carries the query as a tag
FillerChunk(query, i) ==
    SearchChunk(<<"filler_">> \o Dec(i), query, <<query>>, <<>>, "intermediate")

\* chunks that share ids but differ in content and tags
ChunkKinds ==
    {SearchChunk(id, v.content, v.collection_tags, v.search_tags, v.category) :
        id \in {<<"x">>, <<"y">>},
        v \in {[content |-> <<"react">>, collection_tags |-> <<>>,
                search_tags |-> <<>>, category |-> "beginner"],
               [content |-> <<"React", " ", "css">>, collection_tags |-> <<>>,
                search_tags |-> <<>>, category |-> "Advanced"],
               [content |-> <<"react">>, collection_tags |-> << <<"filename:", "f.html">> >>,
                search_tags |-> <<>>, category |-> "unknown"],
               [content |-> <<"React", " ", "css">>, collection_tags |-> <<>>,
                search_tags |-> << <<"source:", "f.html">> >>, category |-> NoCategory]}}

SearchDocuments(query, fillers, fillersFirst, chunks) ==
    LET fillerDoc == [id |-> <<"fillers">>, title |-> <<"fillers">>,
                      chunks |-> [i \in 1..fillers |-> FillerChunk(query, i)]]
        doc == [id |-> RoadmapId, title |-> <<"title">>, chunks |-> chunks]
    IN  IF fillers = 0 THEN <<doc>>
        ELSE IF fillersFirst THEN <<fillerDoc, doc>> ELSE <<doc, fillerDoc>>

\* one call search_and_generate_html(query, documents, threshold)
SearchAndGenerateHtml ==
    /\ UNCHANGED exceptSearch
    /\ ~searchOut.called
    /\ searchOut' = search_and_generate_html(searchQuery, searchDocs, searchThreshold)
    /\ UNCHANGED <<searchQuery, searchDocs, searchThreshold>>

SearchNext ==
    \/ SearchAndGenerateHtml

(***************************************************************************)
(* The other renderers: generate_mindmap_html (hierarchy renderer),        *)
(* generate_roadmap_html (legacy node tree) and the generator's jinja2     *)
(* template.                                                               *)
(***************************************************************************)
MaxRenderLen == 2

\* one learning link of a topic (lines 1381-1384)
RenderLearningLink(link) ==
    <<Markup(<<"<a href=">>), Piece("link.url", Escape(link.url)),
      Piece("link.title", Escape(link.title)), Markup(<<"</a>">>)>>

\* one topic of a phase (lines 1374-1390)
RenderTopic(topic) ==
    <<Markup(<<"detail-node">>), Piece("topic.title", Escape(topic.title)),
      Markup(<<"detail-node">>), Piece("topic.description", Escape(topic.description))>>
    \o Flatten([i \in DOMAIN topic.learning_links |->
                   RenderLearningLink(topic.learning_links[i])])

\* phase number i, counted from 0 (lines 1369-1409)
RenderPhase(i, phase) ==
    LET phase_title == Escape(phase.title)
        duration == Escape(phase.duration)
    IN  <<Markup(<<"branch", "phase-">> \o Dec(i)), Piece("phase.title", phase_title)>>
        \o (IF duration # <<>> THEN <<Piece("phase.duration", duration)>> ELSE <<>>)
        \o Flatten([j \in DOMAIN phase.topics |-> RenderTopic(phase.topics[j])])
        \o <<Markup(<<"/branch">>)>>

\* generate_mindmap_html(roadmap_data)
generate_mindmap_html(roadmap_data) ==
    LET main_topic == Escape(roadmap_data.main_topic)
        prerequisites_html ==
            IF roadmap_data.prerequisites # <<>>
            THEN <<Markup(<<"branch", "prerequisites">>)>>
                 \o [i \in DOMAIN roadmap_data.prerequisites |->
                        Piece("prerequisite", Escape(roadmap_data.prerequisites[i]))]
                 \o <<Markup(<<"/branch">>)>>
            ELSE <<>>
        phases_html ==
            Flatten([i \in DOMAIN roadmap_data.phases |->
                        RenderPhase(i - 1, roadmap_data.phases[i])])
        resources_html ==
            IF roadmap_data.resources # <<>>
            THEN <<Markup(<<"branch", "resources">>)>>
                 \o [i \in DOMAIN roadmap_data.resources |->
                        Piece("resource", Escape(roadmap_data.resources[i]))]
                 \o <<Markup(<<"/branch">>)>>
            ELSE <<>>
    IN  <<Markup(<<"<title>">>), Piece("main_topic", main_topic),
          Markup(<<"<h1>">>), Piece("main_topic", main_topic),
          Markup(<<"root-node">>), Piece("main_topic", main_topic),
          Markup(<<"main-branches">>)>>
        \o prerequisites_html \o phases_html \o resources_html
        \o <<Markup(<<"/main-branches">>)>>

\* the links of a resource or book node, else its content (lines 754-766)
RenderNodeLinks(node) ==
    IF node.links # <<>>
    THEN Flatten([i \in DOMAIN node.links |->
                     <<Markup(<<"<a href=">>), Piece("link.url", node.links[i].url),
                       Piece("link.title", node.links[i].title), Markup(<<"</a>">>)>>])
    ELSE <<Piece("node.content", node.content)>>

\* render_nodes(parent_id, depth) inside generate_roadmap_html (lines 736-769)
RECURSIVE render_nodes(_, _, _)
render_nodes(nodes, parent_id, depth) ==
    LET children == SelectSeq(nodes, LAMBDA n : n.parent_id = parent_id)
        RenderNode(node) ==
            CASE node.node_type = "branch" ->
                    <<Markup(<<"branch">>), Piece("node.category", node.category),
                      Piece("node.id", node.id), Piece("node.title", node.title),
                      Piece("node.id", node.id)>>
                    \o render_nodes(nodes, Some(node.id), depth + 1)
                    \o <<Markup(<<"/branch">>)>>
              [] node.node_type = "sub_branch" ->
                    <<Markup(<<"sub-node">>), Piece("node.id", node.id),
                      Piece("node.title", node.title), Piece("node.id", node.id)>>
                    \o render_nodes(nodes, Some(node.id), depth + 1)
              [] node.node_type = "detail" ->
                    <<Markup(<<"detail-node">>), Piece("node.content", node.content)>>
              [] node.node_type = "resource" ->
                    <<Markup(<<"resource-node">>)>> \o RenderNodeLinks(node)
              [] node.node_type = "book" ->
                    <<Markup(<<"book-node">>)>> \o RenderNodeLinks(node)
              [] OTHER -> <<>>
    IN  IF children = <<>> THEN <<>>
        ELSE (IF depth = 1 THEN <<Markup(<<"main-branches">>)>> ELSE <<>>)
             \o Flatten([i \in DOMAIN children |-> RenderNode(children[i])])
             \o (IF depth = 1 THEN <<Markup(<<"/main-branches">>)>> ELSE <<>>)

\* generate_roadmap_html(nodes, template_path)
generate_roadmap_html(nodes) ==
    LET roots == SelectSeq(nodes, LAMBDA n : n.node_type = "root")
        root_title == IF roots = <<>> THEN Markup(<<"React", " ", "roadmap">>)
                      ELSE Piece("root.title", roots[1].title)
    IN  <<Markup(<<"<head>">>), Markup(<<"<h1>">>), root_title,
          Markup(<<"root-node">>), root_title>>
        \o render_nodes(nodes, IF roots = <<>> THEN None ELSE Some(roots[1].id), 1)
        \o <<Markup(<<"<script>">>)>>

\* the links of a resource or book node in the jinja2 template, else its
\* content (template lines 533-552); Template() is built without autoescape,
\* so {{ ... }} puts the value in as it is
RenderTemplateLinks(node) ==
    Flatten([i \in DOMAIN node.links |->
                <<Markup(<<"<a href=">>), Piece("link.url", node.links[i].url),
                  Piece("link.title", node.links[i].title), Markup(<<"</a>">>)>>])
    \o (IF node.links = <<>> THEN <<Piece("detail.node.content", node.content)>> ELSE <<>>)

\* one third-level entry (template lines 528-555)
RenderTemplateDetail(detail) ==
    CASE detail.node.node_type = "detail" ->
            <<Markup(<<"detail-node">>), Piece("detail.node.content", detail.node.content)>>
      [] detail.node.node_type = "resource" ->
            <<Markup(<<"resource-node">>)>> \o RenderTemplateLinks(detail.node)
      [] detail.node.node_type = "book" ->
            <<Markup(<<"book-node">>)>> \o RenderTemplateLinks(detail.node)
      [] OTHER -> <<>>

\* one second-level entry (template lines 523-557)
RenderTemplateChild(child) ==
    <<Markup(<<"sub-node">>), Piece("child.node.id", child.node.id),
      Piece("child.node.title", child.node.title), Piece("child.node.id", child.node.id)>>
    \o Flatten([i \in DOMAIN child.children |-> RenderTemplateDetail(child.children[i])])

\* one first-level entry (template lines 512-560): a known category gets a
\* fixed label, any other the node's title
RenderTemplateItem(item) ==
    <<Markup(<<"branch">>), Piece("item.node.category", item.node.category),
      Piece("item.node.id", item.node.id)>>
    \o (IF item.node.category \in {<<Categories[i]>> : i \in DOMAIN Categories}
        THEN <<Markup(<<"label">>)>>
        ELSE <<Piece("item.node.title", item.node.title)>>)
    \o <<Piece("item.node.id", item.node.id)>>
    \o Flatten([i \in DOMAIN item.children |-> RenderTemplateChild(item.children[i])])
    \o <<Markup(<<"/branch">>)>>

\* RoadmapGenerator._render_html(data, request): the template rendered with
\* title = request.subject + " roadmap" and hierarchy = data['hierarchy']
_render_html(hierarchy, subject) ==
    LET title == subject \o <<" ", "roadmap">>
    IN  <<Markup(<<"<title>">>), Piece("title", title),
          Markup(<<"<h1>">>), Piece("title", title),
          Markup(<<"root-node">>), Piece("title", title),
          Markup(<<"main-branches">>)>>
        \o Flatten([i \in DOMAIN hierarchy |-> RenderTemplateItem(hierarchy[i])])
        \o <<Markup(<<"/main-branches">>)>>

(***************************************************************************)
(* Inputs of a rendering: one text used for every textual field, one URL,  *)
(* and whether resources carry links                                       *)
(***************************************************************************)
RenderUnits == {"a", "<script>", "&"}
RenderTexts == StringsUpTo(RenderUnits, MaxRenderLen)
RenderUrls == {<<"https://", "a">>, <<"https://", "\"">>}

RenderLinkList(text, url, hasLinks) ==
    IF hasLinks THEN <<[url |-> url, title |-> text, type |-> "video"]>> ELSE <<>>

\* the documents searched by the search renderer: one chunk whose content,
\* section, resource title, tool and learning objective are the text
RenderSearchDocuments(text, url, hasLinks) ==
    LET chunk == SearchChunk(<<"x">>, text, <<>>, <<>>, "beginner")
        metadata == [chunk.metadata EXCEPT
                        !.resources = <<[title |-> text,
                                         url |-> IF hasLinks THEN url ELSE <<"#">>]>>,
                        !.tools = <<text, text>>,
                        !.learning_objectives = <<text>>]
    IN  <<[id |-> RoadmapId, title |-> text,
           chunks |-> <<[chunk EXCEPT !.metadata = metadata]>>]>>

\* roadmap_data of the hierarchy renderer
RenderRoadmapData(text, url, hasLinks) ==
    [main_topic |-> text,
     prerequisites |-> <<text>>,
     phases |-> <<[title |-> text, duration |-> text,
                   topics |-> <<[title |-> text, description |-> text,
                                 learning_links |-> RenderLinkList(text, url, hasLinks)]>>]>>,
     resources |-> <<text>>]

RenderNode(id, parent_id, node_type, text, links) ==
    [id |-> id, title |-> text, content |-> text, parent_id |-> parent_id,
     node_type |-> node_type, category |-> <<"beginner">>, links |-> links]

\* the node list of the legacy renderer: root, branch, sub-branch and one
\* detail, resource and book node
RenderNodes(text, url, hasLinks) ==
    <<RenderNode(<<"root">>, None, "root", text, <<>>),
      RenderNode(<<"b">>, Some(<<"root">>), "branch", text, <<>>),
      RenderNode(<<"s">>, Some(<<"b">>), "sub_branch", text, <<>>),
      RenderNode(<<"d">>, Some(<<"s">>), "detail", text, <<>>),
      RenderNode(<<"r">>, Some(<<"s">>), "resource", text, RenderLinkList(text, url, hasLinks)),
      RenderNode(<<"k">>, Some(<<"s">>), "book", text, RenderLinkList(text, url, hasLinks))>>

\* the hierarchy handed to the template: a branch of a known category and a
\* branch of another one, each with one sub-branch holding the three kinds
RenderHierarchy(text, url, hasLinks) ==
    LET nodes == RenderNodes(text, url, hasLinks)
        leaf(i) == [node |-> nodes[i], children |-> <<>>]
        sub == [node |-> nodes[3], children |-> <<leaf(4), leaf(5), leaf(6)>>]
    IN  <<[node |-> nodes[2], children |-> <<sub>>],
          [node |-> [nodes[2] EXCEPT !.category = <<"etc">>], children |-> <<sub>>]>>

RenderSearchResult ==
    /\ UNCHANGED exceptRender
    /\ ~renderOut.called
    /\ renderOut' =
          [called |-> TRUE, renderer |-> "search",
           html |-> search_and_generate_html(
                        renderText,
                        RenderSearchDocuments(renderText, renderUrl, renderLinks),
                        <<1, 10>>).html]
    /\ UNCHANGED <<renderText, renderUrl, renderLinks>>

GenerateMindmapHtml ==
    /\ UNCHANGED exceptRender
    /\ ~renderOut.called
    /\ renderOut' =
          [called |-> TRUE, renderer |-> "hierarchy",
           html |-> generate_mindmap_html(
                        RenderRoadmapData(renderText, renderUrl, renderLinks))]
    /\ UNCHANGED <<renderText, renderUrl, renderLinks>>

GenerateRoadmapHtml ==
    /\ UNCHANGED exceptRender
    /\ ~renderOut.called
    /\ renderOut' =
          [called |-> TRUE, renderer |-> "legacy",
           html |-> generate_roadmap_html(
                        RenderNodes(renderText, renderUrl, renderLinks))]
    /\ UNCHANGED <<renderText, renderUrl, renderLinks>>

RenderHtml ==
    /\ UNCHANGED exceptRender
    /\ ~renderOut.called
    /\ renderOut' =
          [called |-> TRUE, renderer |-> "template",
           html |-> _render_html(
                        RenderHierarchy(renderText, renderUrl, renderLinks), renderText)]
    /\ UNCHANGED <<renderText, renderUrl, renderLinks>>

RenderNext ==
    \/ RenderSearchResult
    \/ GenerateMindmapHtml
    \/ GenerateRoadmapHtml
    \/ RenderHtml

(***************************************************************************)
(* parse_html_sections.  The parsed document (BeautifulSoup) is a tree: a  *)
(* node is a tag with a name, class tokens and children, or a text node.   *)
(* A class token is a sequence of units, cut so that the words the code    *)
(* looks for (branch, level, main, sub, detail, beginner, ...) are units.  *)
(* Hangul characters of the code's literals are written as one romanised   *)
(* unit per character.                                                     *)
(***************************************************************************)
MaxLevels == 2

SubBranchCap == 3
MinTitleLen == 3
MinSectionLen == 5
FallbackContentCap == 500

Text(t) == [kind |-> "text", name |-> "", class |-> <<>>, text |-> t, children |-> <<>>]
Element(name, class, children) ==
    [kind |-> "tag", name |-> name, class |-> class, text |-> <<>>, children |-> children]
\* the None that find() returns
NoElement == [kind |-> "none", name |-> "", class |-> <<>>, text |-> <<>>, children |-> <<>>]

\* the descendants of a node in document order
RECURSIVE Descendants(_)
Descendants(node) ==
    Flatten([i \in DOMAIN node.children |->
                <<node.children[i]>> \o Descendants(node.children[i])])

\* element.get_text()
RECURSIVE get_text(_)
get_text(node) ==
    IF node.kind = "text" THEN node.text
    ELSE Flatten([i \in DOMAIN node.children |-> get_text(node.children[i])])

\* str.strip()
RECURSIVE LStrip(_)
LStrip(s) == IF s # <<>> /\ IsSpace(s[1]) THEN LStrip(Tail(s)) ELSE s
Strip(s) == Reverse(LStrip(Reverse(LStrip(s))))

\* the class_ argument of find / find_all: absent, True, a string, or a
\* compiled pattern word1|word2|... searched in each class token
NoClass == [mode |-> "none", words |-> {}, token |-> <<>>]
AnyClass == [mode |-> "present", words |-> {}, token |-> <<>>]
ClassToken(token) == [mode |-> "token", words |-> {}, token |-> token]
ClassPattern(words) == [mode |-> "pattern", words |-> words, token |-> <<>>]

ClassMatches(node, class_) ==
    CASE class_.mode = "none" -> TRUE
      [] class_.mode = "present" -> node.class # <<>>
      [] class_.mode = "token" -> \E i \in DOMAIN node.class : node.class[i] = class_.token
      [] class_.mode = "pattern" ->
            \E i \in DOMAIN node.class :
                \E k \in DOMAIN node.class[i] : node.class[i][k] \in class_.words

IsTag(node, names) == node.kind = "tag" /\ node.name \in names

\* element.find_all(names, class_=...)
find_all(node, names, class_) ==
    SelectSeq(Descendants(node), LAMBDA n : IsTag(n, names) /\ ClassMatches(n, class_))

\* element.find(names, class_=...)
find(node, names, class_) ==
    LET found == find_all(node, names, class_)
    IN  IF found = <<>> THEN NoElement ELSE found[1]

\* for every heading in document order, heading.find_next_sibling(['div',
\* 'section']) when there is one (lines 200-207)
RECURSIVE HeadingSiblings(_)
HeadingSiblings(parent) ==
    Flatten([i \in DOMAIN parent.children |->
        LET child == parent.children[i]
            later == SelectSeq(SubSeq(parent.children, i + 1, Len(parent.children)),
                               LAMBDA n : IsTag(n, {"div", "section"}))
        IN  (IF IsTag(child, {"h1", "h2", "h3"}) /\ later # <<>>
             THEN <<later[1]>> ELSE <<>>)
            \o HeadingSiblings(child)])

MainBranchesToken == <<"main", "-", "branch", "es">>

\* the pattern cascade of parse_html_sections (lines 188-211): found says
\* whether main_branches is truthy, items is what iterating it yields.  A
\* Tag is truthy whatever it holds, and iterating it yields its children,
\* text nodes included.
MainBranches(soup) ==
    LET pattern1 == find(soup, {"div"}, ClassToken(MainBranchesToken))
        pattern2 == find_all(soup, {"section", "div"}, ClassPattern({"branch", "level", "main"}))
        pattern3 == HeadingSiblings(soup)
        pattern4 == find_all(soup, {"div"}, AnyClass)
    IN  IF pattern1.kind # "none" THEN [found |-> TRUE, items |-> pattern1.children]
        ELSE IF pattern2 # <<>> THEN [found |-> TRUE, items |-> pattern2]
        ELSE IF pattern3 # <<>> THEN [found |-> TRUE, items |-> pattern3]
        ELSE IF pattern4 # <<>> THEN [found |-> TRUE, items |-> pattern4]
        ELSE [found |-> FALSE, items |-> <<>>]

\* the category tests with intermediate tried before advanced
_extract_category_intermediate_first(classes) ==
    LET class_str == UNION {{LowerChar(classes[i][k]) : k \in DOMAIN classes[i]} :
                               i \in DOMAIN classes}
    IN  IF "beginner" \in class_str \/ "gicho" \in class_str THEN "beginner"
        ELSE IF "intermediate" \in class_str \/ "junggeup" \in class_str THEN "intermediate"
        ELSE IF "advanced" \in class_str \/ "gogeup" \in class_str THEN "advanced"
        ELSE "community"

\* _extract_category_from_classes(classes)
_extract_category_from_classes(classes) ==
    LET class_str == UNION {{LowerChar(classes[i][k]) : k \in DOMAIN classes[i]} :
                               i \in DOMAIN classes}
    IN  IF "beginner" \in class_str \/ "gicho" \in class_str THEN "beginner"
        ELSE IF "advanced" \in class_str \/ "gogeup" \in class_str THEN "advanced"
        ELSE IF "intermediate" \in class_str \/ "junggeup" \in class_str THEN "intermediate"
        ELSE "community"

\* an exception planned for one run: none, or one raised by the cascade (at
\* "cascade"), by the title extraction of the structured pass ("title"), by
\* the metadata extraction of the level, branch or sub-branch at the given
\* position ("level", "branch", "sub"), or by the section splitter
\* ("basic"); warning says that st.warning itself raises when a handler
\* reports a caught exception
Fault(at, level, branch, sub, warning) ==
    [at |-> at, level |-> level, branch |-> branch, sub |-> sub, warning |-> warning]

\* a per-element handler that lets the exception go on
CaughtAborts(fault, st) == [st EXCEPT !.escaped = TRUE]

\* an exception caught by a per-element handler (lines 372-382): the handler
\* calls st.warning and continues; when st.warning raises, the exception
\* leaves every enclosing per-element scope, each handler on the way raising
\* the same way
Caught(fault, st) == IF fault.warning THEN [st EXCEPT !.escaped = TRUE] ELSE st

Emit(st, chunk) ==
    [st EXCEPT !.chunks = Append(@, [chunk EXCEPT !.chunk_index = st.chunk_index]),
               !.chunk_index = @ + 1]

Chunk(id, content, metadata, tag) ==
    [id |-> id, roadmap_id |-> RoadmapId, content |-> content, chunk_index |-> 0,
     metadata |-> metadata, collection_tags |-> <<tag>>, search_tags |-> <<tag>>]

\* the sub-branch loop (lines 342-374); ctx holds fault, level_idx,
\* branch_idx and level_category
RECURSIVE ParseSubBranches(_, _, _, _)
ParseSubBranches(ctx, sub_branches, sub_idx, st) ==
    IF sub_idx >= Len(sub_branches) \/ st.escaped THEN st
    ELSE LET sub_branch == sub_branches[sub_idx + 1]
             sub_title == Strip(get_text(sub_branch))
             raises == /\ ctx.fault.at = "sub"
                       /\ ctx.fault.level = ctx.level_idx
                       /\ ctx.fault.branch = ctx.branch_idx
                       /\ ctx.fault.sub = sub_idx
             sub_chunk ==
                 Chunk(RoadmapId \o <<"_sub_">> \o Dec(ctx.level_idx) \o <<"_">>
                           \o Dec(ctx.branch_idx) \o <<"_">> \o Dec(sub_idx),
                       sub_title,
                       [section |-> sub_title, level |-> ctx.level_idx + 1,
                        branch |-> ctx.branch_idx + 1, sub |-> sub_idx + 1,
                        category |-> ctx.level_category, type |-> "sub_branch"],
                       <<"sub-branch-">> \o sub_title)
         IN  ParseSubBranches(ctx, sub_branches, sub_idx + 1,
                 IF sub_title = <<>> \/ Len(sub_title) < MinTitleLen THEN st
                 ELSE IF raises THEN Caught(ctx.fault, st)
                 ELSE Emit(st, sub_chunk))

\* the branch loop (lines 303-378)
RECURSIVE ParseBranches(_, _, _, _)
ParseBranches(ctx, branches, branch_idx, st) ==
    IF branch_idx >= Len(branches) \/ st.escaped THEN st
    ELSE LET branch == branches[branch_idx + 1]
             text == Strip(get_text(branch))
             branch_title == IF text = <<>>
                             THEN <<"beu", "raen", "chi", " ">> \o Dec(branch_idx + 1)
                             ELSE text
             raises == /\ ctx.fault.at = "branch"
                       /\ ctx.fault.level = ctx.level_idx
                       /\ ctx.fault.branch = branch_idx
             branch_chunk ==
                 Chunk(RoadmapId \o <<"_branch_">> \o Dec(ctx.level_idx) \o <<"_">>
                           \o Dec(branch_idx),
                       branch_title,
                       [section |-> branch_title, level |-> ctx.level_idx + 1,
                        branch |-> branch_idx + 1,
                        category |-> ctx.level_category, type |-> "branch"],
                       <<"branch-">> \o branch_title)
             marked == find_all(branch, {"div"}, ClassPattern({"sub", "detail"}))
             sub_branches == IF marked # <<>> THEN marked
                             ELSE find_all(branch, {"div", "p"}, NoClass)
         IN  ParseBranches(ctx, branches, branch_idx + 1,
                 IF Len(branch_title) < MinTitleLen THEN st
                 ELSE IF raises THEN Caught(ctx.fault, st)
                 ELSE ParseSubBranches([ctx EXCEPT !.branch_idx = branch_idx],
                                       Take(sub_branches, SubBranchCap), 0,
                                       Emit(st, branch_chunk)))

\* the level loop (lines 242-382)
RECURSIVE ParseLevels(_, _, _, _)
ParseLevels(fault, main_branches, level_idx, st) ==
    IF level_idx >= Len(main_branches) \/ st.escaped THEN st
    ELSE LET level_branch == main_branches[level_idx + 1]
             marked == find(level_branch, {"div", "h2"}, ClassPattern({"level", "branch"}))
             first == find(level_branch, {"div", "h2"}, NoClass)
             level_node == IF marked.kind # "none" THEN marked
                           ELSE IF first.kind # "none" THEN first
                           ELSE level_branch
             text == Strip(get_text(level_node))
             level_title == IF text = <<>>
                            THEN <<"re", "bel", " ">> \o Dec(level_idx + 1)
                            ELSE text
             level_category == _extract_category_from_classes(level_node.class)
             raises == fault.at = "level" /\ fault.level = level_idx
             level_chunk ==
                 Chunk(RoadmapId \o <<"_level_">> \o Dec(level_idx),
                       level_title \o <<" - ", level_category, " ", "dan", "gye">>,
                       [section |-> level_title, level |-> level_idx + 1,
                        category |-> level_category, type |-> "level"],
                       <<"level-", level_category>>)
             marked_branches == find_all(level_branch, {"div"}, ClassPattern({"branch", "sub"}))
             divs == find_all(level_branch, {"div"}, NoClass)
             branches == IF marked_branches # <<>> THEN marked_branches
                         ELSE IF divs # <<>> THEN divs
                         ELSE find_all(level_branch, {"div", "section", "p"}, NoClass)
             ctx == [fault |-> fault, level_idx |-> level_idx, branch_idx |-> 0,
                     level_category |-> level_category]
         IN  ParseLevels(fault, main_branches, level_idx + 1,
                 \* a text node is a str: its find() takes no keyword argument
                 IF level_branch.kind = "text" THEN Caught(fault, st)
                 ELSE IF raises THEN Caught(fault, st)
                 ELSE ParseBranches(ctx, branches, 0, Emit(st, level_chunk)))

\* the default title (line 239) and the title of a document
DefaultTitle == <<"hak", "seup", " ", "ro", "deu", "maep">>
MainTitle(soup) ==
    LET title_elem == find(soup, {"h1", "title"}, NoClass)
    IN  IF title_elem.kind # "none" THEN Strip(get_text(title_elem)) ELSE DefaultTitle

\* the chunk the structured pass emits when its loop emitted none (lines 385-407)
FallbackStructuredChunk(soup) ==
    Chunk(RoadmapId \o <<"_fallback_structured">>, MainTitle(soup),
          [section |-> MainTitle(soup), level |-> 1,
           category |-> "unknown", type |-> "fallback_structured"],
          <<"unknown">>)

\* the chunk the structured pass appends in its outer handler (lines 409-432)
ErrorChunk ==
    Chunk(RoadmapId \o <<"_error_fallback">>, <<"pasing oryuro inhan gibon cheongkeu">>,
          [section |-> <<"o", "ryu">>, level |-> 1, category |-> "error", type |-> "error"],
          <<"error">>)

\* _parse_structured_content(roadmap_id, main_branches, soup)
_parse_structured_content(main_branches, soup, fault) ==
    LET start == [chunks |-> <<>>, chunk_index |-> 0, escaped |-> FALSE]
        st == IF fault.at = "title" THEN [start EXCEPT !.escaped = TRUE]
              ELSE ParseLevels(fault, main_branches, 0, start)
    IN  IF st.escaped THEN Append(st.chunks, ErrorChunk)
        ELSE IF st.chunks = <<>> THEN <<FallbackStructuredChunk(soup)>>
        ELSE st.chunks

\* _create_basic_chunk(roadmap_id, index, html_fragment, content): the
\* section title is the first heading inside the fragment
_create_basic_chunk(index, fragment, content) ==
    LET title_match == find(fragment, {"h1", "h2", "h3", "h4", "h5", "h6"}, NoClass)
        section_title == IF title_match.kind # "none" THEN Strip(get_text(title_match))
                         ELSE <<"seg", "syeon", " ">> \o Dec(index + 1)
    IN  [Chunk(RoadmapId \o <<"_chunk_">> \o Dec(index), content,
               [section |-> section_title, step_number |-> index + 1],
               <<"unknown">>)
         EXCEPT !.chunk_index = index]

\* _parse_basic_sections(roadmap_id, html_content): the seven patterns in
\* their order; an element's capture, tags removed, is its text (no element
\* of the documents below holds an element of its own name)
_parse_basic_sections(soup) ==
    LET all_sections ==
            find_all(soup, {"section"}, NoClass)
            \o find_all(soup, {"div"}, ClassPattern({"step"}))
            \o find_all(soup, {"div"}, ClassPattern({"module"}))
            \o find_all(soup, {"h2"}, NoClass)
            \o find_all(soup, {"h3"}, NoClass)
            \o find_all(soup, {"div"}, AnyClass)
            \o find_all(soup, {"p"}, NoClass)
        unique_sections ==
            SelectSeq(all_sections, LAMBDA n : Len(Strip(get_text(n))) > MinSectionLen)
    IN  [i \in DOMAIN unique_sections |->
            _create_basic_chunk(i - 1, unique_sections[i], Strip(get_text(unique_sections[i])))]

NoContentText == <<"pasinghal su inneun naeyongi eopsseumnida.">>

\* the fallback chunk without the placeholder of line 477
_create_fallback_chunk_of_text(soup) ==
    <<Chunk(RoadmapId \o <<"_fallback">>, Strip(get_text(soup)),
            [section |-> MainTitle(soup), step_number |-> 1, type |-> "fallback",
             level |-> 1, category |-> "unknown"],
            <<"unknown">>)>>

\* _create_fallback_chunk(roadmap_id, html_content) on markup the parser accepts
_create_fallback_chunk(soup) ==
    LET text == Strip(get_text(soup))
        text_content == IF text = <<>> THEN NoContentText ELSE text
        content == IF Len(text_content) > FallbackContentCap
                   THEN SubSeq(text_content, 1, FallbackContentCap) \o <<"...">>
                   ELSE text_content
    IN  <<Chunk(RoadmapId \o <<"_fallback">>, content,
                [section |-> MainTitle(soup), step_number |-> 1, type |-> "fallback",
                 level |-> 1, category |-> "unknown"],
                <<"unknown">>)>>

\* parse_html_sections(html_content, roadmap_id).  html_content.rejected says
\* that html.parser rejects the markup: BeautifulSoup(html_content) raises,
\* at line 185 and again at line 473 inside the handler of line 224, from
\* where nothing catches it.
parse_html_sections(html_content, fault) ==
    IF html_content.rejected
    THEN [called |-> TRUE, raised |-> TRUE, chunks |-> <<>>]
    ELSE LET soup == html_content.soup
             main_branches == MainBranches(soup)
             raises == \/ fault.at = "cascade"
                       \/ ~main_branches.found /\ fault.at = "basic"
             chunks == IF main_branches.found
                       THEN _parse_structured_content(main_branches.items, soup, fault)
                       ELSE _parse_basic_sections(soup)
         IN  [called |-> TRUE, raised |-> FALSE,
              chunks |-> IF raises THEN _create_fallback_chunk(soup)
                         ELSE IF chunks = <<>> THEN _create_fallback_chunk(soup)
                         ELSE chunks]

(***************************************************************************)
(* Inputs of a parse: a document and the planned exception                 *)
(***************************************************************************)
Soup(children) == Element("[document]", <<>>, children)
Accepted(soup) == [rejected |-> FALSE, soup |-> soup]
\* markup html.parser rejects, such as "<![a]b>"
RejectedMarkup == [rejected |-> TRUE, soup |-> NoElement]

SubNode(class, text) == Element("div", <<class>>, <<Text(text)>>)

\* a branch of the shape the application's own pages have: a level node
\* with a category class, and a block of nested nodes
BranchDiv(category, title, nested) ==
    Element("div", << <<"branch">> >>,
            <<Element("div", << <<"level", "-", "node">>, <<category>> >>, <<Text(title)>>),
              Element("div", << <<"sub", "-", "branch", "es">> >>, nested)>>)

\* a branch div holding one level node with a category class and one nested
\* block
ScenarioBranch(category, block) ==
    Element("div", << <<"branch">> >>,
            <<Element("div", << <<"level", "-", "node">>, <<category>> >>,
                      <<Text(<<"a", "b", "c">>)>>),
              block>>)

\* branch divs whose nested block is a text block of at least 3 characters:
\* a div with a sub-branch class, and a div without a class
ScenarioKinds ==
    {ScenarioBranch("beginner", SubNode(<<"sub", "-", "branch">>, <<"a", "b", "c", "d">>)),
     ScenarioBranch("advanced", Element("div", <<>>, <<Text(<<"x", "y", "z">>)>>))}

LevelKinds ==
    {BranchDiv("beginner", <<"a", "b", "c">>,
               <<SubNode(<<"sub", "-", "node">>, <<"a", "b", "c", "d">>)>>),
     BranchDiv("Advanced", <<"a", "b">>,
               <<SubNode(<<"sub", "-", "node">>, <<"a", "b">>),
                 SubNode(<<"detail", "-", "node">>, <<"x", "y", "z">>)>>),
     Element("div", <<>>, <<Text(<<" ">>)>>),
     \* a branch div whose nested block has no text
     ScenarioBranch("intermediate", Element("div", << <<"sub", "-", "branch">> >>, <<>>))}
    \cup ScenarioKinds

\* the children of the main-branches container: the levels, with the
\* whitespace text nodes of an indented page around them when pretty
RECURSIVE ContainerChildren(_, _)
ContainerChildren(levels, pretty) ==
    IF levels = <<>> THEN IF pretty THEN <<Text(<<" ">>)>> ELSE <<>>
    ELSE (IF pretty THEN <<Text(<<" ">>)>> ELSE <<>>)
         \o <<Head(levels)>> \o ContainerChildren(Tail(levels), pretty)

MainBranchesDocument(levels, pretty) ==
    Accepted(Soup(<<Element("h1", <<>>, <<Text(<<"T", "i", "t", "l", "e">>)>>),
                    Element("div", <<MainBranchesToken>>,
                            ContainerChildren(levels, pretty))>>))

\* documents without a main-branches container: one for each later pattern
\* of the cascade, four that reach the section splitter, a level whose class
\* names two categories, and rejected markup
OtherDocuments ==
    {Accepted(Soup(<<Element("section", << <<"level">>, <<"intermediate">> >>,
                             <<Element("h2", <<>>, <<Text(<<"a", "b", "c">>)>>),
                               Element("p", <<>>, <<Text(<<"a", "b", "c", "d", "e", "f">>)>>)>>)>>)),
     Accepted(Soup(<<Element("h1", <<>>, <<Text(<<"T", "i", "t", "l", "e">>)>>),
                     Element("div", <<>>,
                             <<Element("p", <<>>, <<Text(<<"a", "b", "c", "d", "e", "f">>)>>)>>)>>)),
     Accepted(Soup(<<Element("div", << <<"box">> >>, <<Text(<<"a", "b">>)>>)>>)),
     Accepted(Soup(<<Element("h2", <<>>, <<Text(<<"a", "b", "c", "d", "e", "f">>)>>),
                     Element("p", <<>>, <<Text(<<"a", "b", "c", "d", "e", "f", "g">>)>>),
                     Element("p", <<>>, <<Text(<<"a", "b", "c">>)>>)>>)),
     Accepted(Soup(<<Element("p", <<>>, <<Text(<<"a", "b", "c">>)>>)>>)),
     Accepted(Soup(<<Element("html", <<>>, <<Element("body", <<>>, <<>>)>>)>>)),
     Accepted(Soup(<<Element("span", <<>>, <<Text(<<" ">>)>>)>>)),
     Accepted(Soup(<<Element("div", << <<"level">>, <<"intermediate">>, <<"gogeup">> >>,
                             <<Element("p", <<>>, <<Text(<<"a", "b", "c", "d">>)>>)>>)>>)),
     RejectedMarkup}

Documents ==
    {MainBranchesDocument(levels, pretty) :
        levels \in StringsUpTo(LevelKinds, MaxLevels), pretty \in BOOLEAN}
    \cup OtherDocuments

NoFault == Fault("none", 0, 0, 0, FALSE)
Faults ==
    {Fault(at, 0, 0, 0, warning) :
        at \in {"none", "cascade", "title", "basic"}, warning \in BOOLEAN}
    \cup {Fault("level", level, 0, 0, warning) :
             level \in 0 .. 2 * MaxLevels - 1, warning \in BOOLEAN}
    \cup {Fault(at, level, 0, 0, warning) :
             at \in {"branch", "sub"}, level \in 0 .. 1, warning \in BOOLEAN}

\* one call parse_html_sections(html_content, roadmap_id)
ParseHtmlSections ==
    /\ UNCHANGED exceptParse
    /\ ~parseOut.called
    /\ parseOut' = parse_html_sections(parseDoc, parseFault)
    /\ UNCHANGED <<parseDoc, parseFault>>

ParseNext ==
    \/ ParseHtmlSections

(***************************************************************************)
(* convert_chunks_to_roadmap_data: chunks to the dict that                 *)
(* generate_mindmap_html renders                                           *)
(***************************************************************************)
MaxConvertChunks == 3

\* int(x) for a string of one or two decimal digits
DigitValue(c) == CHOOSE n \in 0 .. 9 : Digit(n) = c
IntOf(s) == IF Len(s) = 1 THEN DigitValue(s[1])
            ELSE 10 * DigitValue(s[1]) + DigitValue(s[2])

\* the marker word looked for in a section title (line 3140), one unit
PrerequisiteMarker == "sajeon"

\* dict.get(key, default) on a metadata dict
MetadataGet(metadata, key, default) ==
    IF key \in DOMAIN metadata THEN metadata[key] ELSE default

\* the test of line 3140
IsPrerequisite(chunk) ==
    \/ MetadataGet(chunk.metadata, "type", "None") \in {"prerequisite", "requirement"}
    \/ PrerequisiteMarker \in ToSet(MetadataGet(chunk.metadata, "section", <<>>))

\* the titles appended to resources for one chunk (lines 3142-3147)
ResourceTitles(chunk) ==
    LET res == MetadataGet(chunk.metadata, "resources", <<>>)
    IN  [i \in DOMAIN res |->
            IF res[i].title # <<>> THEN res[i].title
            ELSE IF res[i].url # <<>> THEN res[i].url
            ELSE <<"{...}">>]

\* the learning links of the topic of one chunk (lines 3161-3167)
LearningLinks(chunk) ==
    LET res == SelectSeq(MetadataGet(chunk.metadata, "resources", <<>>),
                         LAMBDA r : r.url # <<>>)
    IN  [i \in DOMAIN res |-> [title |-> res[i].title, url |-> res[i].url]]

\* position of a key in phase_dict, a dict in insertion order; 0 when absent
PhaseIndex(phase_dict, phase_key) ==
    IF \E i \in DOMAIN phase_dict : phase_dict[i].key = phase_key
    THEN CHOOSE i \in DOMAIN phase_dict : phase_dict[i].key = phase_key
    ELSE 0

\* one pass of the loop over the chunks (lines 3139-3168)
ConvertChunk(acc, chunk) ==
    LET level == MetadataGet(chunk.metadata, "level", 1)
        phase_key == Dec(level)
        created == IF PhaseIndex(acc.phase_dict, phase_key) = 0
                   THEN Append(acc.phase_dict,
                               [key |-> phase_key,
                                phase |-> [title |-> MetadataGet(chunk.metadata, "section",
                                                         <<"dan", "gye", " ">> \o phase_key),
                                           duration |-> <<>>,
                                           topics |-> <<>>]])
                   ELSE acc.phase_dict
        topic == [title |-> MetadataGet(chunk.metadata, "section", <<>>),
                  description |-> chunk.content,
                  learning_links |-> LearningLinks(chunk)]
        p == PhaseIndex(created, phase_key)
    IN  [prerequisites |-> IF IsPrerequisite(chunk)
                           THEN Append(acc.prerequisites, chunk.content)
                           ELSE acc.prerequisites,
         resources |-> acc.resources \o ResourceTitles(chunk),
         phase_dict |-> [created EXCEPT ![p].phase.topics = Append(@, topic)]]

RECURSIVE ConvertChunks(_, _)
ConvertChunks(acc, chunks) ==
    IF chunks = <<>> THEN acc
    ELSE ConvertChunks(ConvertChunk(acc, Head(chunks)), Tail(chunks))

\* the sort key of line 3169 orders the keys, all of them digit strings, as
\* numbers
KeyOrderText(a, b) ==
    \/ DigitValue(a[1]) < DigitValue(b[1])
    \/ /\ a[1] = b[1]
       /\ \/ Len(a) = 1
          \/ Len(b) = 2 /\ DigitValue(a[2]) <= DigitValue(b[2])

KeyOrder(a, b) == IntOf(a) <= IntOf(b)

\* sorted(phase_dict.keys(), key=...): stable insertion of one entry
InsertByKey(sorted, entry) ==
    LET p == Cardinality({i \in DOMAIN sorted : KeyOrder(sorted[i].key, entry.key)})
    IN  SubSeq(sorted, 1, p) \o <<entry>> \o SubSeq(sorted, p + 1, Len(sorted))

RECURSIVE SortByKey(_, _)
SortByKey(entries, sorted) ==
    IF entries = <<>> THEN sorted
    ELSE SortByKey(Tail(entries), InsertByKey(sorted, Head(entries)))

\* convert_chunks_to_roadmap_data(chunks, main_topic)
convert_chunks_to_roadmap_data(chunks, main_topic) ==
    LET acc == ConvertChunks([prerequisites |-> <<>>, resources |-> <<>>,
                              phase_dict |-> <<>>], chunks)
        ordered == SortByKey(acc.phase_dict, <<>>)
    IN  [called |-> TRUE,
         main_topic |-> main_topic,
         prerequisites |-> acc.prerequisites,
         phases |-> [i \in DOMAIN ordered |-> ordered[i].phase],
         resources |-> acc.resources]

\* the chunks handed to the conversion: a level (0 for a chunk without the
\* key, as the section splitter's chunks), and what marks the chunk: nothing,
\* a resource, the type prerequisite, or the marker word in its section
ConvertKinds ==
    [level : {0, 1, 2, 10}, class : {"topic", "resource", "prerequisite", "marker"}]

ConvertInput(kind, position) ==
    LET section == IF kind.class = "marker"
                   THEN <<PrerequisiteMarker, " ">> \o Dec(position)
                   ELSE <<"s">> \o Dec(position)
        type == IF kind.class = "prerequisite" THEN "prerequisite" ELSE "branch"
        resources == IF kind.class = "resource"
                     THEN <<[title |-> <<"r">> \o Dec(position),
                             url |-> <<"https://", "a">>, type |-> "article"]>>
                     ELSE <<>>
    IN  [id |-> RoadmapId \o <<"_chunk_">> \o Dec(position),
         content |-> <<"c">> \o Dec(position),
         metadata |-> IF kind.level = 0
                      THEN [section |-> section, resources |-> resources]
                      ELSE [section |-> section, level |-> kind.level,
                            type |-> type, resources |-> resources]]

ConvertInputs ==
    {[i \in DOMAIN kinds |-> ConvertInput(kinds[i], i)] :
        kinds \in StringsUpTo(ConvertKinds, MaxConvertChunks)}

\* one call convert_chunks_to_roadmap_data(matched_chunks, main_topic=query)
ConvertChunksToRoadmapData ==
    /\ UNCHANGED exceptConvert
    /\ ~convertOut.called
    /\ convertOut' = convert_chunks_to_roadmap_data(convertChunks, <<"react">>)
    /\ UNCHANGED convertChunks

ConvertNext ==
    \/ ConvertChunksToRoadmapData

(***************************************************************************)
(* suggest_tags_for_chunk and the session state it runs in                 *)
(***************************************************************************)
MaxSuggestCalls == 2
MaxDocuments == 1

\* st.session_state.tag_suggestions as the script sets it (lines 137-145)
TagSuggestions ==
    {"frontend", "backend", "database", "devops", "mobile", "ai", "ml", "data-science",
     "web-development", "mobile-development", "game-development", "security", "testing",
     "react", "vue", "angular", "nodejs", "python", "java", "javascript", "typescript",
     "html", "css", "sql", "mongodb", "postgresql", "docker", "kubernetes", "aws",
     "azure", "gcp", "git", "github", "ci-cd", "agile", "scrum", "ui-ux", "api",
     "microservices", "serverless", "blockchain", "iot", "cloud-computing"}

\* the session state after the script's initialisation (lines 121-145)
SessionState(validation_progress, roadmap_documents) ==
    [validation_progress |-> validation_progress,
     roadmap_documents |-> roadmap_documents,
     custom_tags |-> {},
     tag_suggestions |-> TagSuggestions]

\* tech_patterns and domain_patterns (lines 719-742), in dict order
TechPatterns ==
    <<[tag |-> "frontend", patterns |-> {"react", "vue", "angular", "html", "css", "javascript", "typescript"}],
      [tag |-> "backend", patterns |-> {"nodejs", "python", "java", "php", "ruby", "go"}],
      [tag |-> "database", patterns |-> {"sql", "mongodb", "postgresql", "mysql", "redis"}],
      [tag |-> "devops", patterns |-> {"docker", "kubernetes", "jenkins", "git", "aws", "azure"}],
      [tag |-> "mobile", patterns |-> {"react-native", "flutter", "ios", "android", "swift", "kotlin"}],
      [tag |-> "ai", patterns |-> {"machine-learning", "deep-learning", "tensorflow", "pytorch", "scikit-learn"}],
      [tag |-> "security", patterns |-> {"authentication", "authorization", "encryption", "ssl", "oauth"}],
      [tag |-> "testing", patterns |-> {"unit-test", "integration-test", "e2e-test", "jest", "cypress"}]>>
DomainPatterns ==
    <<[tag |-> "web-development", patterns |-> {"web", "website", "frontend", "backend"}],
      [tag |-> "mobile-development", patterns |-> {"mobile", "app", "ios", "android"}],
      [tag |-> "data-science", patterns |-> {"data", "analysis", "statistics", "machine-learning"}],
      [tag |-> "game-development", patterns |-> {"game", "unity", "unreal", "gaming"}],
      [tag |-> "cybersecurity", patterns |-> {"security", "hacking", "penetration", "vulnerability"}]>>

\* pattern in content_lower: the content is words, one unit each, and a
\* pattern occurs in a word when it is the word or a listed part of it
WordParts == {<<"java", "javascript">>, <<"go", "mongodb">>, <<"git", "github">>}
PatternIn(pattern, content_lower) ==
    \E i \in DOMAIN content_lower :
        \/ content_lower[i] = pattern
        \/ <<pattern, content_lower[i]>> \in WordParts

PatternTags(table, content_lower) ==
    LET hit == SelectSeq(table, LAMBDA row : \E pattern \in row.patterns :
                                                PatternIn(pattern, content_lower))
    IN  [i \in DOMAIN hit |-> <<hit[i].tag>>]

\* a vocabulary that accepts every word once the session holds a document
VocabularyTagsOfSession(session_state, words) ==
    LET lowered == [i \in DOMAIN words |-> LowerChar(words[i])]
        known == SelectSeq(lowered, LAMBDA w :
                     w \in session_state.tag_suggestions
                     \/ session_state.roadmap_documents > 0)
    IN  [i \in DOMAIN known |-> <<known[i]>>]

\* the tags taken from a list of metadata words that are in the vocabulary
VocabularyTags(session_state, words) ==
    LET lowered == [i \in DOMAIN words |-> LowerChar(words[i])]
        known == SelectSeq(lowered, LAMBDA w : w \in session_state.tag_suggestions)
    IN  [i \in DOMAIN known |-> <<known[i]>>]

\* suggest_tags_for_chunk(chunk_content, chunk_metadata) run in a session:
\* the two lists as sets, list(set(...)) leaving their order open
suggest_tags_for_chunk(session_state, chunk_content, chunk_metadata) ==
    LET keywords == MetadataGet(chunk_metadata, "keywords", <<>>)
        tools == MetadataGet(chunk_metadata, "tools", <<>>)
        category == LowerChar(MetadataGet(chunk_metadata, "category", ""))
        chunk_type == LowerChar(MetadataGet(chunk_metadata, "type", ""))
        level == MetadataGet(chunk_metadata, "level", 0)
        content_lower == Lower(chunk_content)
        collection_tags ==
            (IF category \in {"beginner", "intermediate", "advanced"}
             THEN << <<"level-", category>>, <<"difficulty-", category>> >> ELSE <<>>)
            \o (IF chunk_type \in {"level", "branch", "sub_branch"}
                THEN << <<"type-", chunk_type>>, <<"structure-", chunk_type>> >> ELSE <<>>)
            \o (IF level # 0 THEN << <<"hierarchy-level-">> \o Dec(level) >> ELSE <<>>)
            \o PatternTags(DomainPatterns, content_lower)
        search_tags ==
            VocabularyTags(session_state, keywords)
            \o VocabularyTags(session_state, tools)
            \o PatternTags(TechPatterns, content_lower)
    IN  [collection_tags |-> ToSet(collection_tags), search_tags |-> ToSet(search_tags)]

\* the contents and metadata of the chunks offered for tagging
SuggestContents ==
    {<<>>, <<"React", " ", "x">>, <<"javascript">>, <<"mongodb", " ", "web">>}
SuggestMetadata ==
    {[section |-> <<"s">>],
     [section |-> <<"s">>, keywords |-> <<"React", "x">>, tools |-> <<"git">>,
      category |-> "Advanced", type |-> "level", level |-> 1],
     [section |-> <<"s">>, keywords |-> <<"x">>, tools |-> <<"A", "React">>,
      category |-> "community", type |-> "fallback", level |-> 2],
     [section |-> <<"s">>, keywords |-> <<"github">>, tools |-> <<>>,
      category |-> "beginner", type |-> "branch", level |-> 0]}

\* the tag editor shows the suggestions for the selected chunk (line 2442)
SuggestTagsForChunk ==
    /\ UNCHANGED exceptSuggest
    /\ Len(suggestCalls) < MaxSuggestCalls
    /\ \E chunk_content \in SuggestContents, chunk_metadata \in SuggestMetadata :
          suggestCalls' = Append(suggestCalls,
              [content |-> chunk_content, metadata |-> chunk_metadata,
               session_before |-> session, session_after |-> session,
               suggested |-> suggest_tags_for_chunk(session, chunk_content, chunk_metadata)])
    /\ UNCHANGED session

\* a document is uploaded and stored in the session (roadmap_documents)
StoreDocument ==
    /\ UNCHANGED exceptSuggest
    /\ session.roadmap_documents < MaxDocuments
    /\ session' = [session EXCEPT !.roadmap_documents = @ + 1]
    /\ UNCHANGED suggestCalls

\* a validation run reports its progress (line 1797)
SetValidationProgress ==
    /\ UNCHANGED exceptSuggest
    /\ session.validation_progress = 0
    /\ session' = [session EXCEPT !.validation_progress = 67]
    /\ UNCHANGED suggestCalls

SuggestNext ==
    \/ SuggestTagsForChunk
    \/ StoreDocument
    \/ SetValidationProgress

(***************************************************************************)
(* RoadmapGenerator._build_hierarchy: a flat node collection to a forest.  *)
(* Node ids are numbers; NoParent is the None of a root's parent_id.       *)
(***************************************************************************)
MaxHierarchyNodes == 3

NoParent == 0
HierarchyIds == 1 .. MaxHierarchyNodes
\* the id of a node that is not in the collection
OutsideId == MaxHierarchyNodes + 1
NodeOrders == {0, 1}

HierarchyNode(id, parent_id, order) == [id |-> id, parent_id |-> parent_id, order |-> order]

\* children.sort(key=lambda x: x['order']): a stable sort
RECURSIVE SortByOrder(_)
SortByOrder(children) ==
    IF children = <<>> THEN <<>>
    ELSE LET sorted == SortByOrder(SubSeq(children, 1, Len(children) - 1))
             last == children[Len(children)]
             p == Cardinality({i \in DOMAIN sorted : sorted[i].order <= last.order})
         IN  SubSeq(sorted, 1, p) \o <<last>> \o SubSeq(sorted, p + 1, Len(sorted))

\* build_tree(node_id) (lines 174-183); node_map holds the last node of each id
RECURSIVE build_tree(_, _)
build_tree(nodes, node_id) ==
    LET node == nodes[CHOOSE i \in DOMAIN nodes :
                        /\ nodes[i].id = node_id
                        /\ \A j \in DOMAIN nodes : nodes[j].id = node_id => j <= i]
        children == SortByOrder(SelectSeq(nodes, LAMBDA n : n.parent_id = node_id))
    IN  [node |-> node,
         children |-> [i \in DOMAIN children |-> build_tree(nodes, children[i].id)]]

\* _build_hierarchy(nodes)
_build_hierarchy(nodes) ==
    LET root_nodes == SelectSeq(nodes, LAMBDA n : n.parent_id = NoParent)
    IN  [called |-> TRUE,
         hierarchy |-> [i \in DOMAIN root_nodes |-> build_tree(nodes, root_nodes[i].id)]]

\* the collections _collect_relevant_nodes returns (lines 130-164): nodes
\* with distinct ids, each with no parent, a parent of the collection that
\* comes earlier or later in it, or a parent the search did not return.
\* The code only compares ids for equality, so a node is named by its
\* place in the collection.
HierarchyIdLists ==
    {[i \in 1 .. n |-> i] : n \in 0 .. MaxHierarchyNodes}
HierarchyInputs ==
    UNION {{[i \in DOMAIN ids |-> HierarchyNode(ids[i], parents[i], orders[i])] :
               parents \in {ps \in [DOMAIN ids -> HierarchyIds \cup {NoParent, OutsideId}] :
                               \A i \in DOMAIN ids : ps[i] # ids[i]},
               orders \in [DOMAIN ids -> NodeOrders]} :
           ids \in HierarchyIdLists}

\* one call _build_hierarchy(all_nodes) (line 86)
BuildHierarchy ==
    /\ UNCHANGED exceptHierarchy
    /\ ~hierarchyOut.called
    /\ hierarchyOut' = _build_hierarchy(hierarchyNodes)
    /\ UNCHANGED hierarchyNodes

HierarchyNext ==
    \/ BuildHierarchy

(***************************************************************************)
(* QdrantRoadmapStore with a DatabaseValidationLogger: the collection of   *)
(* points, store_nodes, update_node, get_subtree, and the effects of the   *)
(* update_node calls on the collection and on the change log in the order  *)
(* they happen                                                             *)
(***************************************************************************)
MaxUpdates == 2

NodeIds == {"n1", "n2"}
UnknownNodeId == "n9"
NodeTexts == {"a", "b"}
\* the None of a root's parent_id
NullId == "null"

\* a RoadmapNode (lines 31-43)
RoadmapNode(id, title, content, depth, parent_id, node_type, category, links, order, tags) ==
    [id |-> id, title |-> title, content |-> content, depth |-> depth,
     parent_id |-> parent_id, node_type |-> node_type, category |-> category,
     links |-> links, order |-> order, tags |-> tags]

\* the nodes a parse hands to store_nodes: a root and one branch
ParsedNodes ==
    <<RoadmapNode("n1", "a", "a", 0, NullId, "root", "general", <<>>, 0,
                  <<"react", "roadmap">>),
      RoadmapNode("n2", "a", "a", 1, "n1", "branch", "beginner",
                  <<[url |-> "u", title |-> "t", type |-> "website"]>>, 1,
                  <<"beginner", "react">>)>>

\* " | ".join(parts)
RECURSIVE JoinParts(_)
JoinParts(parts) ==
    IF parts = <<>> THEN <<>>
    ELSE IF Len(parts) = 1 THEN parts[1]
         ELSE parts[1] \o <<" | ">> \o JoinParts(Tail(parts))

\* _create_embedding_text(node) (lines 533-548)
_create_embedding_text(node) ==
    JoinParts(<< <<"Title: ", node.title>>,
                 <<"Content: ", node.content>>,
                 <<"Category: ", node.category>>,
                 <<"Type: ", node.node_type>>,
                 <<"Tags: ">> \o Join([i \in DOMAIN node.tags |-> <<node.tags[i]>>]) >>
              \o (IF node.links # <<>>
                  THEN << <<"Resources: ">>
                          \o Join([i \in DOMAIN node.links |-> <<node.links[i].title>>]) >>
                  ELSE <<>>))

\* _create_embedding_text_from_dict(node_dict) (lines 686-702)
_create_embedding_text_from_dict(node_dict) ==
    LET tags == MetadataGet(node_dict, "tags", <<>>)
        links == MetadataGet(node_dict, "links", <<>>)
    IN  JoinParts(<< <<"Title: ", MetadataGet(node_dict, "title", "")>>,
                     <<"Content: ", MetadataGet(node_dict, "content", "")>>,
                     <<"Category: ", MetadataGet(node_dict, "category", "")>>,
                     <<"Type: ", MetadataGet(node_dict, "node_type", "")>>,
                     <<"Tags: ">> \o Join([i \in DOMAIN tags |-> <<tags[i]>>]) >>
                  \o (IF links # <<>>
                      THEN << <<"Resources: ">>
                              \o Join([i \in DOMAIN links |->
                                          <<MetadataGet(links[i], "title", "")>>]) >>
                      ELSE <<>>))

\* encoder.encode(text).tolist(): the vector, known by the text it encodes
Encode(text) == [encoded |-> text]

\* the payload store_nodes builds for a node (lines 478-490); last_updated
\* is 0 until an update sets it
Payload(node, embedding_text) ==
    [id |-> node.id, title |-> node.title, content |-> node.content,
     depth |-> node.depth, parent_id |-> node.parent_id, node_type |-> node.node_type,
     category |-> node.category, links |-> node.links, order |-> node.order,
     tags |-> node.tags, embedding_text |-> embedding_text, last_updated |-> 0]

PointStruct(vector, payload) == [vector |-> vector, payload |-> payload]

\* store_nodes(nodes) (lines 461-502): nothing without an encoder, else one
\* point per node, upserted under the node's id
store_nodes(points, encoder, nodes) ==
    IF ~encoder THEN points
    ELSE [node_id \in DOMAIN points \cup {nodes[i].id : i \in DOMAIN nodes} |->
            IF \E i \in DOMAIN nodes : nodes[i].id = node_id
            THEN LET node == nodes[CHOOSE i \in DOMAIN nodes :
                                     /\ nodes[i].id = node_id
                                     /\ \A j \in DOMAIN nodes :
                                           nodes[j].id = node_id => j <= i]
                     embedding_text == _create_embedding_text(node)
                 IN  PointStruct(Encode(embedding_text), Payload(node, embedding_text))
            ELSE points[node_id]]

\* updated_data: a dict with some of the payload's keys
UpdatedData ==
    {[title |-> t] : t \in NodeTexts} \cup {[content |-> t] : t \in NodeTexts}
    \cup {[parent_id |-> p] : p \in NodeIds \cup {NullId}}

\* the step of one call that raises: none, client.retrieve, log_change,
\* encoder.encode or client.upsert
UpdateFailures == {"none", "retrieve", "log_change", "encode", "upsert"}

\* existing_node.copy() followed by update(updated_data) (lines 657-658)
DictUpdate(existing_node, updated_data) ==
    [k \in DOMAIN existing_node \cup DOMAIN updated_data |->
        IF k \in DOMAIN updated_data THEN updated_data[k] ELSE existing_node[k]]

\* get_node_by_id(node_id): the payload, or None - also when retrieve raises
NoNode == [found |-> FALSE]
get_node_by_id(points, node_id, failure) ==
    IF failure = "retrieve" \/ node_id \notin DOMAIN points THEN NoNode
    ELSE [found |-> TRUE, payload |-> points[node_id].payload]

\* _log_node_update(node_id, old_data, new_data): the row log_change inserts
\* (db_validation_logger.py lines 137-163)
_log_node_update(call, node_id, old_data, new_data) ==
    [kind |-> "change_log", call |-> call, node_id |-> node_id, change_type |-> "update",
     old_data |-> old_data, new_data |-> new_data, validation_status |-> "success"]

\* the upsert of one point: what it replaces and what it stores
Upsert(call, node_id, replaced, payload) ==
    [kind |-> "upsert", call |-> call, node_id |-> node_id,
     replaced |-> replaced, payload |-> payload]

\* update_node(node_id, updated_data) as call number call at time now, on a
\* store with the given points, encoder (loaded or None) and logger
\* (attached or None): the points and the effects after the call, and the
\* value returned
update_node(points, encoder, validation_logger, call, now, node_id, updated_data, failure) ==
    LET existing_node == get_node_by_id(points, node_id, failure)
        logs == validation_logger
        change == IF logs
                  THEN <<_log_node_update(call, node_id, existing_node.payload, updated_data)>>
                  ELSE <<>>
        merged == DictUpdate(existing_node.payload, updated_data)
        embedding_text == _create_embedding_text_from_dict(merged)
        updated_node == [merged EXCEPT !.last_updated = now]
    IN  IF ~existing_node.found
        THEN [points |-> points, effects |-> <<>>, returned |-> FALSE]
        ELSE IF logs /\ failure = "log_change"
        THEN [points |-> points, effects |-> <<>>, returned |-> FALSE]
        ELSE IF ~encoder \/ failure = "encode"
        THEN [points |-> points, effects |-> change, returned |-> FALSE]
        ELSE IF failure = "upsert"
        THEN [points |-> points, effects |-> change, returned |-> FALSE]
        ELSE [points |-> [points EXCEPT ![node_id] =
                              PointStruct(Encode(embedding_text), updated_node)],
              effects |-> change
                          \o <<Upsert(call, node_id, existing_node.payload, updated_node)>>,
              returned |-> TRUE]

\* get_children_nodes(parent_id) (lines 612-630): the payloads whose
\* parent_id is the given id, sorted by order
get_children_nodes(points, parent_id) ==
    LET ids == {node_id \in DOMAIN points : points[node_id].payload.parent_id = parent_id}
        scrolled == CHOOSE seq \in [1 .. Cardinality(ids) -> ids] :
                        \A i, j \in DOMAIN seq : i # j => seq[i] # seq[j]
    IN  SortByOrder([i \in DOMAIN scrolled |-> points[scrolled[i]].payload])

\* get_subtree(node_id) calls itself for a node already on the path from the
\* node it was first called for: the recursion does not end by itself
RECURSIVE RecursionRepeats(_, _, _)
RecursionRepeats(points, node_id, path) ==
    \/ node_id \in path
    \/ \E i \in DOMAIN get_children_nodes(points, node_id) :
          RecursionRepeats(points, get_children_nodes(points, node_id)[i].id,
                           path \cup {node_id})

\* the tree get_subtree(node_id) builds when its recursion ends (lines 632-641)
RECURSIVE SubtreeOf(_, _)
SubtreeOf(points, node_id) ==
    LET children == get_children_nodes(points, node_id)
    IN  [node |-> points[node_id].payload,
         children |-> [i \in DOMAIN children |-> SubtreeOf(points, children[i].id)]]

\* get_subtree(node_id): None for an unknown node; RecursionError when the
\* recursion does not end by itself; else the tree
get_subtree(points, node_id) ==
    IF node_id \notin DOMAIN points
    THEN [called |-> TRUE, node_id |-> node_id, raised |-> FALSE, found |-> FALSE,
          tree |-> <<>>]
    ELSE IF RecursionRepeats(points, node_id, {})
    THEN [called |-> TRUE, node_id |-> node_id, raised |-> TRUE, found |-> TRUE,
          tree |-> <<>>]
    ELSE [called |-> TRUE, node_id |-> node_id, raised |-> FALSE, found |-> TRUE,
          tree |-> <<SubtreeOf(points, node_id)>>]

\* one call store.store_nodes(nodes) with the parsed nodes
StoreNodes ==
    /\ UNCHANGED exceptStore
    /\ storePoints' = store_nodes(storePoints, storeEncoder, ParsedNodes)
    /\ UNCHANGED <<storeEncoder, storeLogger, storeEffects, storeReturns, storeSubtree>>

\* one call store.update_node(node_id, updated_data)
UpdateNode ==
    /\ UNCHANGED exceptStore
    /\ Len(storeReturns) < MaxUpdates
    /\ \E node_id \in NodeIds \cup {UnknownNodeId}, updated_data \in UpdatedData,
          failure \in UpdateFailures :
          LET call == Len(storeReturns) + 1
              done == update_node(storePoints, storeEncoder, storeLogger, call, call,
                                  node_id, updated_data, failure)
          IN  /\ storePoints' = done.points
              /\ storeEffects' = storeEffects \o done.effects
              /\ storeReturns' = Append(storeReturns, done.returned)
    /\ UNCHANGED <<storeEncoder, storeLogger, storeSubtree>>

\* one call store.get_subtree(node_id) (roadmap_generator.py line 64)
GetSubtree ==
    /\ UNCHANGED exceptStore
    /\ \E node_id \in NodeIds :
          storeSubtree' = get_subtree(storePoints, node_id)
    /\ UNCHANGED <<storePoints, storeEncoder, storeLogger, storeEffects, storeReturns>>

StoreNext ==
    \/ StoreNodes
    \/ UpdateNode
    \/ GetSubtree

(***************************************************************************)
(* The batch page: run_and_stream in its thread, the queue q, and the loop *)
(* that drains it into log_lines (learning_roadmap.py lines 3016-3045)     *)
(***************************************************************************)
MaxLines == 3

\* the lines the subprocess can write
StreamLines == {"x", "y"}
\* the None that run_and_stream puts last
EndMarker == "None"

\* what goes wrong in run_and_stream: nothing, Popen raises, or reading
\* process.stdout raises once `at` lines have been read
NoStreamFault == [kind |-> "none", at |-> 0]
StreamFault(kind, at) == [kind |-> kind, at |-> at]
StreamFaults(output) ==
    {NoStreamFault, StreamFault("popen", 0)}
    \cup {StreamFault("stdout", at) : at \in 0 .. Len(output)}

\* q.put(item) on the unbounded FIFO queue.Queue()
Put(queue, item) == Append(queue, item)

\* what q.get hands out of a non-empty queue, taken from the wrong end
GetNewest(queue) ==
    [item |-> queue[Len(queue)], rest |-> SubSeq(queue, 1, Len(queue) - 1)]

\* q.get(timeout=0.1) on a non-empty queue: the oldest item
Get(queue) == [item |-> Head(queue), rest |-> Tail(queue)]

\* Popen(...) (lines 3019-3023): the subprocess starts, or Popen raises and
\* the thread ends
ProducerStart ==
    /\ UNCHANGED exceptStream
    /\ producerPc = "start"
    /\ producerPc' = IF streamFault.kind = "popen" THEN "raised" ELSE "reading"
    /\ UNCHANGED <<streamOutput, streamFault, streamRead, streamQ, log_lines, consumerPc>>

\* one round of `for line in process.stdout: q.put(line)` (lines 3024-3025)
ProducerPut ==
    /\ UNCHANGED exceptStream
    /\ producerPc = "reading"
    /\ streamRead < Len(streamOutput)
    /\ ~(streamFault.kind = "stdout" /\ streamFault.at = streamRead)
    /\ streamQ' = Put(streamQ, streamOutput[streamRead + 1])
    /\ streamRead' = streamRead + 1
    /\ UNCHANGED <<streamOutput, streamFault, producerPc, log_lines, consumerPc>>

\* reading process.stdout raises: the thread ends with the exception
ProducerRaise ==
    /\ UNCHANGED exceptStream
    /\ producerPc = "reading"
    /\ streamFault.kind = "stdout" /\ streamFault.at = streamRead
    /\ producerPc' = "raised"
    /\ UNCHANGED <<streamOutput, streamFault, streamRead, streamQ, log_lines, consumerPc>>

\* the stream ends; process.stdout.close() and process.wait() (3026-3027)
ProducerWait ==
    /\ UNCHANGED exceptStream
    /\ producerPc = "reading"
    /\ streamRead = Len(streamOutput)
    /\ ~(streamFault.kind = "stdout" /\ streamFault.at = streamRead)
    /\ producerPc' = "exited"
    /\ UNCHANGED <<streamOutput, streamFault, streamRead, streamQ, log_lines, consumerPc>>

\* q.put(None) (line 3028)
ProducerPutEnd ==
    /\ UNCHANGED exceptStream
    /\ producerPc = "exited"
    /\ streamQ' = Put(streamQ, EndMarker)
    /\ producerPc' = "returned"
    /\ UNCHANGED <<streamOutput, streamFault, streamRead, log_lines, consumerPc>>

\* q.get(timeout=0.1) returns an item (lines 3032-3041): None ends the loop,
\* a line is appended to log_lines
ConsumerGet ==
    /\ UNCHANGED exceptStream
    /\ consumerPc = "get"
    /\ streamQ # <<>>
    /\ LET got == Get(streamQ)
       IN  /\ streamQ' = got.rest
           /\ IF got.item = EndMarker
              THEN consumerPc' = "done" /\ UNCHANGED log_lines
              ELSE consumerPc' = "get" /\ log_lines' = Append(log_lines, got.item)
    /\ UNCHANGED <<streamOutput, streamFault, streamRead, producerPc>>

\* q.get times out on the empty queue: queue.Empty (lines 3034-3035)
ConsumerEmpty ==
    /\ UNCHANGED exceptStream
    /\ consumerPc = "get"
    /\ streamQ = <<>>
    /\ consumerPc' = "sleep"
    /\ UNCHANGED <<streamOutput, streamFault, streamRead, producerPc, streamQ, log_lines>>

\* time.sleep(0.1); continue (lines 3035-3036)
ConsumerSleep ==
    /\ UNCHANGED exceptStream
    /\ consumerPc = "sleep"
    /\ consumerPc' = "get"
    /\ UNCHANGED <<streamOutput, streamFault, streamRead, producerPc, streamQ, log_lines>>

\* the thread t running run_and_stream
Producer ==
    \/ ProducerStart
    \/ ProducerPut
    \/ ProducerRaise
    \/ ProducerWait
    \/ ProducerPutEnd

\* the script's while True loop
Consumer ==
    \/ ConsumerGet
    \/ ConsumerEmpty
    \/ ConsumerSleep

StreamNext ==
    \/ ProducerStart
    \/ ProducerPut
    \/ ProducerRaise
    \/ ProducerWait
    \/ ProducerPutEnd
    \/ ConsumerGet
    \/ ConsumerEmpty
    \/ ConsumerSleep

(***************************************************************************)
(* ReactRoadmapParser: the legacy node parser (react_roadmap_parser.py     *)
(* lines 44-197).  An element is named by its path, the child indices that *)
(* lead to it from the document; a class name the parser compares as a     *)
(* whole is one unit.  Of a RoadmapNode the model keeps the fields the     *)
(* tree is made of, and the element the node was made from.                *)
(***************************************************************************)
MaxParseCalls == 2
MaxContainerChildren == 3

\* the element at a path below node
RECURSIVE At(_, _)
At(node, path) ==
    IF path = <<>> THEN node ELSE At(node.children[path[1]], Tail(path))

\* the paths of the descendants of node, relative to it, in document order
RECURSIVE PathsBelow(_)
PathsBelow(node) ==
    Flatten([i \in DOMAIN node.children |->
        LET below == PathsBelow(node.children[i])
        IN  <<<<i>>>> \o [k \in DOMAIN below |-> <<i>> \o below[k]]])

\* element.find_all(names, class_=...) as paths
FindAllAt(soup, base, names, class_) ==
    LET below == PathsBelow(At(soup, base))
        paths == [k \in DOMAIN below |-> base \o below[k]]
    IN  SelectSeq(paths, LAMBDA p : /\ IsTag(At(soup, p), names)
                                    /\ ClassMatches(At(soup, p), class_))

\* element.find_all(names, class_=..., recursive=False) as paths
FindChildrenAt(soup, base, names, class_) ==
    LET paths == [i \in DOMAIN At(soup, base).children |-> base \o <<i>>]
    IN  SelectSeq(paths, LAMBDA p : /\ IsTag(At(soup, p), names)
                                    /\ ClassMatches(At(soup, p), class_))

\* element.find_next_sibling(names, class_=...) as a sequence of at most one
\* path: the first later child of the same parent that matches
FindNextSiblingAt(soup, path, names, class_) ==
    LET parent == SubSeq(path, 1, Len(path) - 1)
        later == SelectSeq(FindChildrenAt(soup, parent, names, class_),
                           LAMBDA p : p[Len(p)] > path[Len(path)])
    IN  IF path = <<>> THEN <<>> ELSE Take(later, 1)

\* 'name' in classes
InClasses(node, name) == \E i \in DOMAIN node.class : node.class[i] = <<name>>

\* a RoadmapNode (lines 31-43) without title, content, links and tags;
\* element is the path of the element it was made from
LegacyNode(id, depth, parent_id, node_type, category, order, element) ==
    [id |-> id, depth |-> depth, parent_id |-> parent_id, node_type |-> node_type,
     category |-> category, order |-> order, element |-> element]

\* the parser object: self.nodes and self.current_order
ParserState(nodes, current_order) == [nodes |-> nodes, current_order |-> current_order]

\* str(uuid.uuid4()): an id no node of the parser has yet
NewId(self) == Len(self.nodes) + 1

\* self.current_order += 1 and self.nodes.append(RoadmapNode(...)) with the
\* new order and a new id
AppendNode(self, depth, parent_id, node_type, category, element) ==
    ParserState(Append(self.nodes,
                       LegacyNode(NewId(self), depth, parent_id, node_type, category,
                                  self.current_order + 1, element)),
                self.current_order + 1)

\* _get_category_from_classes(classes) (lines 326-331)
_get_category_from_classes(classes) ==
    LET named == SelectSeq(classes, LAMBDA cls :
                     cls \in {<<"beginner">>, <<"intermediate">>, <<"advanced">>,
                              <<"community">>})
    IN  IF named = <<>> THEN "general" ELSE named[1][1]

\* _parse_detail_node (lines 198-224): no node for an element without text
_parse_detail_node(soup, self, detail_node, parent_id, category) ==
    IF Strip(get_text(At(soup, detail_node))) = <<>> THEN self
    ELSE AppendNode(self, 3, parent_id, "detail", category, detail_node)

\* _parse_resource_node (lines 226-248)
_parse_resource_node(soup, self, resource_node, parent_id, category) ==
    AppendNode(self, 3, parent_id, "resource", category, resource_node)

\* _parse_book_node (lines 250-269)
_parse_book_node(soup, self, book_node, parent_id, category) ==
    AppendNode(self, 3, parent_id, "book", category, book_node)

\* the loop of _parse_details over detail_nodes (lines 189-197)
RECURSIVE ParseDetailNodes(_, _, _, _, _)
ParseDetailNodes(soup, self, detail_nodes, parent_id, category) ==
    IF detail_nodes = <<>> THEN self
    ELSE LET detail_node == Head(detail_nodes)
             elem == At(soup, detail_node)
             after == IF InClasses(elem, "detail-node")
                      THEN _parse_detail_node(soup, self, detail_node, parent_id, category)
                      ELSE IF InClasses(elem, "resource-node")
                      THEN _parse_resource_node(soup, self, detail_node, parent_id, category)
                      ELSE IF InClasses(elem, "book-node")
                      THEN _parse_book_node(soup, self, detail_node, parent_id, category)
                      ELSE self
         IN  ParseDetailNodes(soup, after, Tail(detail_nodes), parent_id, category)

\* _parse_details(details_elem, parent_id, category) (lines 185-197)
_parse_details(soup, self, details_elem, parent_id, category) ==
    ParseDetailNodes(soup, self, FindAllAt(soup, details_elem, {"div"}, NoClass),
                     parent_id, category)

\* the loop of _parse_sub_branches over sub_nodes (lines 161-183)
RECURSIVE ParseSubNodes(_, _, _, _, _)
ParseSubNodes(soup, self, sub_nodes, parent_id, category) ==
    IF sub_nodes = <<>> THEN self
    ELSE LET sub_node == Head(sub_nodes)
             sub_branch_node_id == NewId(self)
             appended == AppendNode(self, 2, parent_id, "sub_branch", category, sub_node)
             next_sibling == FindNextSiblingAt(soup, sub_node, {"div"},
                                               ClassToken(<<"sub-branches">>))
             after == IF next_sibling # <<>>
                      THEN _parse_details(soup, appended, next_sibling[1],
                                          sub_branch_node_id, category)
                      ELSE appended
         IN  ParseSubNodes(soup, after, Tail(sub_nodes), parent_id, category)

\* _parse_sub_branches(sub_branches_elem, parent_id, category) (lines 157-183)
_parse_sub_branches(soup, self, sub_branches_elem, parent_id, category) ==
    ParseSubNodes(soup, self,
                  FindChildrenAt(soup, sub_branches_elem, {"div"},
                                 ClassToken(<<"sub-node">>)),
                  parent_id, category)

\* _parse_branch(branch_elem, parent_id) (lines 124-155)
_parse_branch(soup, self, branch_elem, parent_id) ==
    LET level_node == FindAllAt(soup, branch_elem, {"div"}, ClassToken(<<"level-node">>))
        category == _get_category_from_classes(At(soup, level_node[1]).class)
        branch_node_id == NewId(self)
        appended == AppendNode(self, 1, parent_id, "branch", category, branch_elem)
        sub_branches == FindAllAt(soup, branch_elem, {"div"},
                                  ClassToken(<<"sub-branches">>))
    IN  IF level_node = <<>> THEN self
        ELSE IF sub_branches # <<>>
        THEN _parse_sub_branches(soup, appended, sub_branches[1], branch_node_id, category)
        ELSE appended

\* the loop of parse over branches (lines 65-66)
RECURSIVE ParseBranchList(_, _, _, _)
ParseBranchList(soup, self, branches, parent_id) ==
    IF branches = <<>> THEN self
    ELSE ParseBranchList(soup, _parse_branch(soup, self, Head(branches), parent_id),
                         Tail(branches), parent_id)

\* parse() (lines 54-73): the root node is appended with order 0 and
\* current_order is left alone; the returned list is self.nodes itself
parse(soup, self) ==
    LET root_node_id == NewId(self)
        rooted == ParserState(Append(self.nodes,
                                     LegacyNode(root_node_id, 0, NoParent, "root",
                                                "general", 0, <<>>)),
                              self.current_order)
        main_branches == FindAllAt(soup, <<>>, {"div"}, ClassToken(<<"main-branches">>))
    IN  IF main_branches = <<>> THEN rooted
        ELSE ParseBranchList(soup, rooted,
                             FindAllAt(soup, main_branches[1], {"div"},
                                       ClassToken(<<"branch">>)),
                             root_node_id)

\* the elements of the roadmap page
PageSubNode(text) == Element("div", <<<<"sub-node">>>>, <<Text(text)>>)
PageDetailNode(text) == Element("div", <<<<"detail-node">>>>, <<Text(text)>>)
PageResourceNode(text) == Element("div", <<<<"resource-node">>>>, <<Text(text)>>)
PageBookNode(text) == Element("div", <<<<"book-node">>>>, <<Text(text)>>)
PageSubBranches(children) == Element("div", <<<<"sub-branches">>>>, children)
PageLevelNode(category, text) ==
    Element("div", <<<<"level-node">>, <<category>>>>, <<Text(text)>>)
PageBranch(children) == Element("div", <<<<"branch">>>>, children)
Page(branches) ==
    Element("[document]", <<>>,
            <<Element("div", <<<<"main-branches">>>>, branches)>>)

\* what a sub-branches container of the page holds: sub-nodes, and details
\* containers with a detail, with a resource and a book, or with a detail
\* that has no text
ContainerItems ==
    {PageSubNode(<<"a">>),
     PageSubBranches(<<PageDetailNode(<<"d">>)>>),
     PageSubBranches(<<PageResourceNode(<<"r">>), PageBookNode(<<"b">>)>>),
     PageSubBranches(<<PageDetailNode(<<" ">>)>>)}

\* the documents a parser is built on
LegacyDocuments ==
    {Page(<<PageBranch(<<PageLevelNode("beginner", <<"t">>), PageSubBranches(children)>>)>>) :
        children \in StringsUpTo(ContainerItems, MaxContainerChildren)}
    \cup {Element("[document]", <<>>, <<>>),
          Page(<<PageBranch(<<PageSubBranches(<<PageSubNode(<<"a">>)>>)>>)>>),
          Page(<<PageBranch(<<PageLevelNode("hard", <<"t">>)>>),
                 PageBranch(<<PageLevelNode("advanced", <<"t">>),
                          PageSubBranches(<<PageSubNode(<<"a">>),
                                        PageSubBranches(<<PageDetailNode(<<"d">>)>>)>>)>>)>>),
          Page(<<PageBranch(<<PageLevelNode("community", <<"t">>),
                          PageBranch(<<PageLevelNode("beginner", <<"t">>),
                                   PageSubBranches(<<PageSubNode(<<"a">>)>>)>>)>>)>>)}

\* one call parser.parse()
Parse ==
    /\ UNCHANGED exceptLegacy
    /\ legacyCalls < MaxParseCalls
    /\ LET done == parse(legacyDoc, ParserState(legacyNodes, legacyOrder))
       IN  /\ legacyNodes' = done.nodes
           /\ legacyOrder' = done.current_order
    /\ legacyCalls' = legacyCalls + 1
    /\ UNCHANGED legacyDoc

LegacyNext ==
    \/ Parse

(***************************************************************************)
(* Specifications                                                          *)
(***************************************************************************)
\* calculate_similarity on every pair of strings within the bound
InitScore ==
    /\ simQuery \in StringsUpTo(Chars, MaxStrLen)
    /\ simContent \in StringsUpTo(Chars, MaxStrLen)
    /\ simResult = NoResult
    /\ simSwapped = NoResult
    /\ hashSeed = 0
    /\ lists = <<>>
    /\ dicts = <<>>
    /\ docChunks = <<>>
    /\ uploaded = FALSE
    /\ applyCall = NoCall
    /\ applyAgain = NoCall
    /\ tagSearch = NoCall
    /\ searchQuery = <<>>
    /\ searchDocs = <<>>
    /\ searchThreshold = FZero
    /\ searchOut = NoCall
    /\ renderText = <<>>
    /\ renderUrl = <<>>
    /\ renderLinks = FALSE
    /\ renderOut = NoCall
    /\ parseDoc = RejectedMarkup
    /\ parseFault = NoFault
    /\ parseOut = NoCall
    /\ convertChunks = <<>>
    /\ convertOut = NoCall
    /\ storePoints = <<>>
    /\ storeEncoder = FALSE
    /\ storeLogger = FALSE
    /\ storeEffects = <<>>
    /\ storeReturns = <<>>
    /\ storeSubtree = NoCall
    /\ session = SessionState(0, 0)
    /\ suggestCalls = <<>>
    /\ hierarchyNodes = <<>>
    /\ hierarchyOut = NoCall
    /\ streamOutput = <<>>
    /\ streamFault = NoStreamFault
    /\ streamRead = 0
    /\ producerPc = "start"
    /\ streamQ = <<>>
    /\ log_lines = <<>>
    /\ consumerPc = "get"
    /\ legacyDoc = NoElement
    /\ legacyNodes = <<>>
    /\ legacyOrder = 0
    /\ legacyCalls = 0

SpecScore == InitScore /\ [][ScoreNext]_vars

\* the tagging flow on a freshly parsed document
InitTags ==
    /\ simQuery = <<>>
    /\ simContent = <<>>
    /\ simResult = NoResult
    /\ simSwapped = NoResult
    /\ hashSeed \in {0, 1}
    /\ \E doc \in {FallbackDocument, StructuredDocument} :
          /\ lists = doc.lists
          /\ dicts = doc.dicts
          /\ docChunks = doc.chunks
    /\ uploaded = FALSE
    /\ applyCall = NoCall
    /\ applyAgain = NoCall
    /\ tagSearch = NoCall
    /\ searchQuery = <<>>
    /\ searchDocs = <<>>
    /\ searchThreshold = FZero
    /\ searchOut = NoCall
    /\ renderText = <<>>
    /\ renderUrl = <<>>
    /\ renderLinks = FALSE
    /\ renderOut = NoCall
    /\ parseDoc = RejectedMarkup
    /\ parseFault = NoFault
    /\ parseOut = NoCall
    /\ convertChunks = <<>>
    /\ convertOut = NoCall
    /\ storePoints = <<>>
    /\ storeEncoder = FALSE
    /\ storeLogger = FALSE
    /\ storeEffects = <<>>
    /\ storeReturns = <<>>
    /\ storeSubtree = NoCall
    /\ session = SessionState(0, 0)
    /\ suggestCalls = <<>>
    /\ hierarchyNodes = <<>>
    /\ hierarchyOut = NoCall
    /\ streamOutput = <<>>
    /\ streamFault = NoStreamFault
    /\ streamRead = 0
    /\ producerPc = "start"
    /\ streamQ = <<>>
    /\ log_lines = <<>>
    /\ consumerPc = "get"
    /\ legacyDoc = NoElement
    /\ legacyNodes = <<>>
    /\ legacyOrder = 0
    /\ legacyCalls = 0

SpecTags == InitTags /\ [][TagNext]_vars

\* a search over stored documents
InitSearch ==
    /\ simQuery = <<>>
    /\ simContent = <<>>
    /\ simResult = NoResult
    /\ simSwapped = NoResult
    /\ hashSeed = 0
    /\ lists = <<>>
    /\ dicts = <<>>
    /\ docChunks = <<>>
    /\ uploaded = FALSE
    /\ applyCall = NoCall
    /\ applyAgain = NoCall
    /\ tagSearch = NoCall
    /\ searchQuery \in Queries
    /\ searchThreshold \in Thresholds
    /\ \E fillers \in {0, TopK - 1, TopK}, fillersFirst \in BOOLEAN,
          chunks \in StringsUpTo(ChunkKinds, MaxSearchChunks) :
          /\ fillers = 0 => fillersFirst
          /\ searchDocs = SearchDocuments(searchQuery, fillers, fillersFirst, chunks)
    /\ searchOut = NoCall
    /\ renderText = <<>>
    /\ renderUrl = <<>>
    /\ renderLinks = FALSE
    /\ renderOut = NoCall
    /\ parseDoc = RejectedMarkup
    /\ parseFault = NoFault
    /\ parseOut = NoCall
    /\ convertChunks = <<>>
    /\ convertOut = NoCall
    /\ storePoints = <<>>
    /\ storeEncoder = FALSE
    /\ storeLogger = FALSE
    /\ storeEffects = <<>>
    /\ storeReturns = <<>>
    /\ storeSubtree = NoCall
    /\ session = SessionState(0, 0)
    /\ suggestCalls = <<>>
    /\ hierarchyNodes = <<>>
    /\ hierarchyOut = NoCall
    /\ streamOutput = <<>>
    /\ streamFault = NoStreamFault
    /\ streamRead = 0
    /\ producerPc = "start"
    /\ streamQ = <<>>
    /\ log_lines = <<>>
    /\ consumerPc = "get"
    /\ legacyDoc = NoElement
    /\ legacyNodes = <<>>
    /\ legacyOrder = 0
    /\ legacyCalls = 0

SpecSearch == InitSearch /\ [][SearchNext]_vars

\* one rendering of one input by one of the four renderers
InitRender ==
    /\ simQuery = <<>>
    /\ simContent = <<>>
    /\ simResult = NoResult
    /\ simSwapped = NoResult
    /\ hashSeed = 0
    /\ lists = <<>>
    /\ dicts = <<>>
    /\ docChunks = <<>>
    /\ uploaded = FALSE
    /\ applyCall = NoCall
    /\ applyAgain = NoCall
    /\ tagSearch = NoCall
    /\ searchQuery = <<>>
    /\ searchDocs = <<>>
    /\ searchThreshold = FZero
    /\ searchOut = NoCall
    /\ renderText \in RenderTexts
    /\ renderUrl \in RenderUrls
    /\ renderLinks \in BOOLEAN
    /\ renderOut = NoCall
    /\ parseDoc = RejectedMarkup
    /\ parseFault = NoFault
    /\ parseOut = NoCall
    /\ convertChunks = <<>>
    /\ convertOut = NoCall
    /\ storePoints = <<>>
    /\ storeEncoder = FALSE
    /\ storeLogger = FALSE
    /\ storeEffects = <<>>
    /\ storeReturns = <<>>
    /\ storeSubtree = NoCall
    /\ session = SessionState(0, 0)
    /\ suggestCalls = <<>>
    /\ hierarchyNodes = <<>>
    /\ hierarchyOut = NoCall
    /\ streamOutput = <<>>
    /\ streamFault = NoStreamFault
    /\ streamRead = 0
    /\ producerPc = "start"
    /\ streamQ = <<>>
    /\ log_lines = <<>>
    /\ consumerPc = "get"
    /\ legacyDoc = NoElement
    /\ legacyNodes = <<>>
    /\ legacyOrder = 0
    /\ legacyCalls = 0

SpecRender == InitRender /\ [][RenderNext]_vars

\* one parse of one document under one planned exception
InitParse ==
    /\ simQuery = <<>>
    /\ simContent = <<>>
    /\ simResult = NoResult
    /\ simSwapped = NoResult
    /\ hashSeed = 0
    /\ lists = <<>>
    /\ dicts = <<>>
    /\ docChunks = <<>>
    /\ uploaded = FALSE
    /\ applyCall = NoCall
    /\ applyAgain = NoCall
    /\ tagSearch = NoCall
    /\ searchQuery = <<>>
    /\ searchDocs = <<>>
    /\ searchThreshold = FZero
    /\ searchOut = NoCall
    /\ renderText = <<>>
    /\ renderUrl = <<>>
    /\ renderLinks = FALSE
    /\ renderOut = NoCall
    /\ parseDoc \in Documents
    /\ parseFault \in Faults
    /\ parseOut = NoCall
    /\ convertChunks = <<>>
    /\ convertOut = NoCall
    /\ storePoints = <<>>
    /\ storeEncoder = FALSE
    /\ storeLogger = FALSE
    /\ storeEffects = <<>>
    /\ storeReturns = <<>>
    /\ storeSubtree = NoCall
    /\ session = SessionState(0, 0)
    /\ suggestCalls = <<>>
    /\ hierarchyNodes = <<>>
    /\ hierarchyOut = NoCall
    /\ streamOutput = <<>>
    /\ streamFault = NoStreamFault
    /\ streamRead = 0
    /\ producerPc = "start"
    /\ streamQ = <<>>
    /\ log_lines = <<>>
    /\ consumerPc = "get"
    /\ legacyDoc = NoElement
    /\ legacyNodes = <<>>
    /\ legacyOrder = 0
    /\ legacyCalls = 0

SpecParse == InitParse /\ [][ParseNext]_vars

\* one conversion of a list of chunks
InitConvert ==
    /\ simQuery = <<>>
    /\ simContent = <<>>
    /\ simResult = NoResult
    /\ simSwapped = NoResult
    /\ hashSeed = 0
    /\ lists = <<>>
    /\ dicts = <<>>
    /\ docChunks = <<>>
    /\ uploaded = FALSE
    /\ applyCall = NoCall
    /\ applyAgain = NoCall
    /\ tagSearch = NoCall
    /\ searchQuery = <<>>
    /\ searchDocs = <<>>
    /\ searchThreshold = FZero
    /\ searchOut = NoCall
    /\ renderText = <<>>
    /\ renderUrl = <<>>
    /\ renderLinks = FALSE
    /\ renderOut = NoCall
    /\ parseDoc = RejectedMarkup
    /\ parseFault = NoFault
    /\ parseOut = NoCall
    /\ convertChunks \in ConvertInputs
    /\ convertOut = NoCall
    /\ storePoints = <<>>
    /\ storeEncoder = FALSE
    /\ storeLogger = FALSE
    /\ storeEffects = <<>>
    /\ storeReturns = <<>>
    /\ storeSubtree = NoCall
    /\ session = SessionState(0, 0)
    /\ suggestCalls = <<>>
    /\ hierarchyNodes = <<>>
    /\ hierarchyOut = NoCall
    /\ streamOutput = <<>>
    /\ streamFault = NoStreamFault
    /\ streamRead = 0
    /\ producerPc = "start"
    /\ streamQ = <<>>
    /\ log_lines = <<>>
    /\ consumerPc = "get"
    /\ legacyDoc = NoElement
    /\ legacyNodes = <<>>
    /\ legacyOrder = 0
    /\ legacyCalls = 0

SpecConvert == InitConvert /\ [][ConvertNext]_vars

\* a store holding two nodes, with or without an encoder and a logger
InitStore ==
    /\ simQuery = <<>>
    /\ simContent = <<>>
    /\ simResult = NoResult
    /\ simSwapped = NoResult
    /\ hashSeed = 0
    /\ lists = <<>>
    /\ dicts = <<>>
    /\ docChunks = <<>>
    /\ uploaded = FALSE
    /\ applyCall = NoCall
    /\ applyAgain = NoCall
    /\ tagSearch = NoCall
    /\ searchQuery = <<>>
    /\ searchDocs = <<>>
    /\ searchThreshold = FZero
    /\ searchOut = NoCall
    /\ renderText = <<>>
    /\ renderUrl = <<>>
    /\ renderLinks = FALSE
    /\ renderOut = NoCall
    /\ parseDoc = RejectedMarkup
    /\ parseFault = NoFault
    /\ parseOut = NoCall
    /\ convertChunks = <<>>
    /\ convertOut = NoCall
    /\ storePoints \in {<<>>, store_nodes(<<>>, TRUE, ParsedNodes)}
    /\ storeEncoder \in BOOLEAN
    /\ storeLogger \in BOOLEAN
    /\ storeEffects = <<>>
    /\ storeReturns = <<>>
    /\ storeSubtree = NoCall
    /\ session = SessionState(0, 0)
    /\ suggestCalls = <<>>
    /\ hierarchyNodes = <<>>
    /\ hierarchyOut = NoCall
    /\ streamOutput = <<>>
    /\ streamFault = NoStreamFault
    /\ streamRead = 0
    /\ producerPc = "start"
    /\ streamQ = <<>>
    /\ log_lines = <<>>
    /\ consumerPc = "get"
    /\ legacyDoc = NoElement
    /\ legacyNodes = <<>>
    /\ legacyOrder = 0
    /\ legacyCalls = 0

SpecStore == InitStore /\ [][StoreNext]_vars

\* a session after the script's initialisation, before any suggestion
InitSuggest ==
    /\ simQuery = <<>>
    /\ simContent = <<>>
    /\ simResult = NoResult
    /\ simSwapped = NoResult
    /\ hashSeed = 0
    /\ lists = <<>>
    /\ dicts = <<>>
    /\ docChunks = <<>>
    /\ uploaded = FALSE
    /\ applyCall = NoCall
    /\ applyAgain = NoCall
    /\ tagSearch = NoCall
    /\ searchQuery = <<>>
    /\ searchDocs = <<>>
    /\ searchThreshold = FZero
    /\ searchOut = NoCall
    /\ renderText = <<>>
    /\ renderUrl = <<>>
    /\ renderLinks = FALSE
    /\ renderOut = NoCall
    /\ parseDoc = RejectedMarkup
    /\ parseFault = NoFault
    /\ parseOut = NoCall
    /\ convertChunks = <<>>
    /\ convertOut = NoCall
    /\ storePoints = <<>>
    /\ storeEncoder = FALSE
    /\ storeLogger = FALSE
    /\ storeEffects = <<>>
    /\ storeReturns = <<>>
    /\ storeSubtree = NoCall
    /\ session = SessionState(0, 0)
    /\ suggestCalls = <<>>
    /\ hierarchyNodes = <<>>
    /\ hierarchyOut = NoCall
    /\ streamOutput = <<>>
    /\ streamFault = NoStreamFault
    /\ streamRead = 0
    /\ producerPc = "start"
    /\ streamQ = <<>>
    /\ log_lines = <<>>
    /\ consumerPc = "get"
    /\ legacyDoc = NoElement
    /\ legacyNodes = <<>>
    /\ legacyOrder = 0
    /\ legacyCalls = 0

SpecSuggest == InitSuggest /\ [][SuggestNext]_vars

\* a node collection handed to _build_hierarchy
InitHierarchy ==
    /\ simQuery = <<>>
    /\ simContent = <<>>
    /\ simResult = NoResult
    /\ simSwapped = NoResult
    /\ hashSeed = 0
    /\ lists = <<>>
    /\ dicts = <<>>
    /\ docChunks = <<>>
    /\ uploaded = FALSE
    /\ applyCall = NoCall
    /\ applyAgain = NoCall
    /\ tagSearch = NoCall
    /\ searchQuery = <<>>
    /\ searchDocs = <<>>
    /\ searchThreshold = FZero
    /\ searchOut = NoCall
    /\ renderText = <<>>
    /\ renderUrl = <<>>
    /\ renderLinks = FALSE
    /\ renderOut = NoCall
    /\ parseDoc = RejectedMarkup
    /\ parseFault = NoFault
    /\ parseOut = NoCall
    /\ convertChunks = <<>>
    /\ convertOut = NoCall
    /\ storePoints = <<>>
    /\ storeEncoder = FALSE
    /\ storeLogger = FALSE
    /\ storeEffects = <<>>
    /\ storeReturns = <<>>
    /\ storeSubtree = NoCall
    /\ session = SessionState(0, 0)
    /\ suggestCalls = <<>>
    /\ hierarchyNodes \in HierarchyInputs
    /\ hierarchyOut = NoCall
    /\ streamOutput = <<>>
    /\ streamFault = NoStreamFault
    /\ streamRead = 0
    /\ producerPc = "start"
    /\ streamQ = <<>>
    /\ log_lines = <<>>
    /\ consumerPc = "get"
    /\ legacyDoc = NoElement
    /\ legacyNodes = <<>>
    /\ legacyOrder = 0
    /\ legacyCalls = 0

SpecHierarchy == InitHierarchy /\ [][HierarchyNext]_vars

\* the batch run: the thread is started, the queue and the log are empty
InitStream ==
    /\ simQuery = <<>>
    /\ simContent = <<>>
    /\ simResult = NoResult
    /\ simSwapped = NoResult
    /\ hashSeed = 0
    /\ lists = <<>>
    /\ dicts = <<>>
    /\ docChunks = <<>>
    /\ uploaded = FALSE
    /\ applyCall = NoCall
    /\ applyAgain = NoCall
    /\ tagSearch = NoCall
    /\ searchQuery = <<>>
    /\ searchDocs = <<>>
    /\ searchThreshold = FZero
    /\ searchOut = NoCall
    /\ renderText = <<>>
    /\ renderUrl = <<>>
    /\ renderLinks = FALSE
    /\ renderOut = NoCall
    /\ parseDoc = RejectedMarkup
    /\ parseFault = NoFault
    /\ parseOut = NoCall
    /\ convertChunks = <<>>
    /\ convertOut = NoCall
    /\ storePoints = <<>>
    /\ storeEncoder = FALSE
    /\ storeLogger = FALSE
    /\ storeEffects = <<>>
    /\ storeReturns = <<>>
    /\ storeSubtree = NoCall
    /\ session = SessionState(0, 0)
    /\ suggestCalls = <<>>
    /\ hierarchyNodes = <<>>
    /\ hierarchyOut = NoCall
    /\ streamOutput \in StringsUpTo(StreamLines, MaxLines)
    /\ streamFault \in StreamFaults(streamOutput)
    /\ streamRead = 0
    /\ producerPc = "start"
    /\ streamQ = <<>>
    /\ log_lines = <<>>
    /\ consumerPc = "get"
    /\ legacyDoc = NoElement
    /\ legacyNodes = <<>>
    /\ legacyOrder = 0
    /\ legacyCalls = 0

SpecStream == InitStream /\ [][StreamNext]_vars

\* the thread and the loop both keep running: neither is held back for ever
\* while it has a step to take
SpecStreamFair == SpecStream /\ WF_vars(Producer) /\ WF_vars(Consumer)

\* ReactRoadmapParser(html_content): no nodes yet, current_order 0
InitLegacy ==
    /\ simQuery = <<>>
    /\ simContent = <<>>
    /\ simResult = NoResult
    /\ simSwapped = NoResult
    /\ hashSeed = 0
    /\ lists = <<>>
    /\ dicts = <<>>
    /\ docChunks = <<>>
    /\ uploaded = FALSE
    /\ applyCall = NoCall
    /\ applyAgain = NoCall
    /\ tagSearch = NoCall
    /\ searchQuery = <<>>
    /\ searchDocs = <<>>
    /\ searchThreshold = FZero
    /\ searchOut = NoCall
    /\ renderText = <<>>
    /\ renderUrl = <<>>
    /\ renderLinks = FALSE
    /\ renderOut = NoCall
    /\ parseDoc = RejectedMarkup
    /\ parseFault = NoFault
    /\ parseOut = NoCall
    /\ convertChunks = <<>>
    /\ convertOut = NoCall
    /\ storePoints = <<>>
    /\ storeEncoder = FALSE
    /\ storeLogger = FALSE
    /\ storeEffects = <<>>
    /\ storeReturns = <<>>
    /\ storeSubtree = NoCall
    /\ session = SessionState(0, 0)
    /\ suggestCalls = <<>>
    /\ hierarchyNodes = <<>>
    /\ hierarchyOut = NoCall
    /\ streamOutput = <<>>
    /\ streamFault = NoStreamFault
    /\ streamRead = 0
    /\ producerPc = "start"
    /\ streamQ = <<>>
    /\ log_lines = <<>>
    /\ consumerPc = "get"
    /\ legacyDoc \in LegacyDocuments
    /\ legacyNodes = <<>>
    /\ legacyOrder = 0
    /\ legacyCalls = 0

SpecLegacy == InitLegacy /\ [][LegacyNext]_vars

(***************************************************************************)
(* C9                                                                      *)
(***************************************************************************)
\* the lower-cased whitespace-token set of s, stated without split(): the
\* maximal space-free substrings of lower(s)
WordSet(s) ==
    LET l == Lower(s)
        spaceFree(i, j) == \A k \in i..j : ~IsSpace(l[k])
    IN  {SubSeq(l, ij[1], ij[2]) :
            ij \in {p \in (DOMAIN l) \X (DOMAIN l) :
                      /\ p[1] <= p[2]
                      /\ spaceFree(p[1], p[2])
                      /\ (p[1] = 1 \/ IsSpace(l[p[1] - 1]))
                      /\ (p[2] = Len(l) \/ IsSpace(l[p[2] + 1]))}}

\* C9: score(query, content) = |Q \cap C| / |Q \cup C| over the lower-cased
\* whitespace-token sets; 0 when either set is empty; within [0, 1]; 1 exactly
\* when Q = C and both are non-empty; symmetric in its arguments.
C9_JaccardScore ==
    LET Q == WordSet(simQuery)
        C == WordSet(simContent)
    IN  /\ simResult # NoResult =>
            /\ (Q = {} \/ C = {}) => FEq(simResult, FZero)
            /\ (Q # {} /\ C # {}) =>
                  FEq(simResult, <<Cardinality(Q \cap C), Cardinality(Q \cup C)>>)
            /\ FGe(simResult, FZero) /\ FGe(FOne, simResult)
            /\ FEq(simResult, FOne) <=> (Q = C /\ Q # {})
            /\ (Len(simQuery) = 1 /\ simQuery = simContent /\ ~IsSpace(simQuery[1]))
                  => FEq(simResult, FOne)
        /\ (simResult # NoResult /\ simSwapped # NoResult) => FEq(simResult, simSwapped)

\* a mixed-case query scored against differently-cased content with a partial overlap
C9_Witness ==
    /\ simResult # NoResult
    /\ simSwapped # NoResult
    /\ simQuery = <<"A", " ", "b">>
    /\ simContent = <<"a">>
    /\ simResult = <<1, 2>>

(***************************************************************************)
(* C6                                                                      *)
(***************************************************************************)
\* C6: apply_tags_to_chunk does not mutate its argument (collection tags,
\* search tags, metadata and metadata.keywords are as before the call), and a
\* second call with the same chunk and the same tag lists returns a chunk
\* structurally equal to the first call's.
C6_ApplyTagsPure ==
    /\ applyCall.called => applyCall.argAfter = applyCall.argBefore
    /\ applyCall.called =>
          DerefChunk(lists, dicts, docChunks[applyCall.idx]) = applyCall.argBefore
    /\ applyAgain.called => applyAgain.retValue = applyCall.retValue

\* both tag lists supplied, the tags changed in the returned chunk, called twice
C6_Witness ==
    /\ applyCall.called
    /\ applyAgain.called
    /\ Truthy(applyCall.coll)
    /\ Truthy(applyCall.search)
    /\ ToSet(applyCall.retValue.collection_tags) # ToSet(applyCall.argBefore.collection_tags)
    /\ applyCall.retValue.metadata.keywords # applyCall.argBefore.metadata.keywords

(***************************************************************************)
(* C7                                                                      *)
(***************************************************************************)
SuppliedSet(arg) == IF arg.none THEN {} ELSE ToSet(arg.v)

\* C7: for every chunk and every (possibly absent or empty) pair of supplied
\* tag lists the returned chunk's collection tags and search tags are
\* duplicate-free and equal, as sets, to the union of the chunk's tags and
\* the supplied tags; with search tags supplied metadata.keywords is the
\* union of the old keywords and the supplied search tags; the identity
\* fields are the input's.
C7_ApplyTagsUnion ==
    applyCall.called =>
        LET before == applyCall.argBefore
            ret == applyCall.retValue
        IN  /\ ~HasDuplicates(ret.collection_tags)
            /\ ~HasDuplicates(ret.search_tags)
            /\ ToSet(ret.collection_tags) =
                  ToSet(before.collection_tags) \cup SuppliedSet(applyCall.coll)
            /\ ToSet(ret.search_tags) =
                  ToSet(before.search_tags) \cup SuppliedSet(applyCall.search)
            /\ Truthy(applyCall.search) =>
                  ToSet(ret.metadata.keywords) =
                      ToSet(before.metadata.keywords) \cup SuppliedSet(applyCall.search)
            /\ ret.id = before.id
            /\ ret.roadmap_id = before.roadmap_id
            /\ ret.content = before.content
            /\ ret.html_fragment = before.html_fragment
            /\ ret.chunk_index = before.chunk_index

(***************************************************************************)
(* C8                                                                      *)
(***************************************************************************)
\* C8: search_chunks_by_tags returns, in input order, exactly the chunks with
\* at least one tag of the selected namespace equal, ignoring case, to at
\* least one supplied tag; with no supplied tag it returns its input.
C8_SearchByTags ==
    tagSearch.called =>
        LET chunks == tagSearch.chunks
            ret == tagSearch.ret
            namespace(chunk) == IF tagSearch.tag_type = "collection"
                                THEN tagSearch.lists[chunk.collection_tags]
                                ELSE tagSearch.lists[chunk.search_tags]
            matching == {i \in DOMAIN chunks :
                            \E t \in ToSet(tagSearch.tags), ct \in ToSet(namespace(chunks[i])) :
                                Lower(t) = Lower(ct)}
            nth(k) == CHOOSE i \in matching : Cardinality({j \in matching : j < i}) = k - 1
        IN  IF tagSearch.tags = <<>>
            THEN ret = chunks
            ELSE /\ Len(ret) = Cardinality(matching)
                 /\ \A k \in DOMAIN ret : ret[k] = chunks[nth(k)]

\* a filter tag that differs in case from the one chunk tag it matches, and
\* that keeps one of the document's two chunks
C8_Witness ==
    /\ tagSearch.called
    /\ tagSearch.tags = << <<"branch-", "react">> >>
    /\ tagSearch.tag_type = "collection"
    /\ Len(tagSearch.chunks) = 2
    /\ Len(tagSearch.ret) = 1
    /\ tagSearch.ret[1] = tagSearch.chunks[2]

(***************************************************************************)
(* C4, C5                                                                  *)
(***************************************************************************)
ItemsWithId(items, id) == {i \in DOMAIN items : items[i].chunk.id = id}
IdsOf(items) == {items[i].chunk.id : i \in DOMAIN items}

\* the similarity of some match with this id that no match with this id exceeds
IsMaxSimilarity(sim, items, id) ==
    /\ \E i \in ItemsWithId(items, id) : FEq(items[i].similarity, sim)
    /\ \A i \in ItemsWithId(items, id) : FGe(sim, items[i].similarity)

\* the number of matches ranked before a match: those with a higher
\* similarity, and those with the same similarity encountered earlier
RankOf(items, i) ==
    Cardinality({j \in DOMAIN items :
                    \/ FGt(items[j].similarity, items[i].similarity)
                    \/ /\ FEq(items[j].similarity, items[i].similarity)
                       /\ items[j].encounter < items[i].encounter})

\* C4 as claimed: whenever the matches hold a chunk id more than once with
\* different scores, the result has exactly one entry for that id, with the
\* maximum score of all matches with that id, and no id occurs twice.
C4_DedupKeepsMaximum ==
    searchOut.called =>
        LET matches == searchOut.relevant_chunks
            result == searchOut.unique_chunks_list
        IN  /\ \A id \in IdsOf(matches) :
                  (\E i, j \in ItemsWithId(matches, id) :
                       ~FEq(matches[i].similarity, matches[j].similarity))
                  => /\ Cardinality(ItemsWithId(result, id)) = 1
                     /\ \A r \in ItemsWithId(result, id) :
                           IsMaxSimilarity(result[r].similarity, matches, id)
            /\ \A id \in IdsOf(result) : Cardinality(ItemsWithId(result, id)) = 1

\* C4 amended: no chunk id occurs twice in the result; an id of which some
\* match ranks among the first TopK matches (by descending score, ties in
\* encounter order) has exactly one entry, with the maximum score of all
\* matches with that id; an id whose matches all rank behind the first TopK
\* has no entry.
C4_DedupKeepsMaximumWithinTop ==
    searchOut.called =>
        LET matches == searchOut.relevant_chunks
            result == searchOut.unique_chunks_list
        IN  /\ \A id \in IdsOf(result) : Cardinality(ItemsWithId(result, id)) = 1
            /\ \A id \in IdsOf(matches) :
                  IF \E i \in ItemsWithId(matches, id) : RankOf(matches, i) < TopK
                  THEN /\ Cardinality(ItemsWithId(result, id)) = 1
                       /\ \A r \in ItemsWithId(result, id) :
                             IsMaxSimilarity(result[r].similarity, matches, id)
                  ELSE ItemsWithId(result, id) = {}

\* one id matched twice with different scores and kept once, and another id
\* matched but cut off by the first TopK
C4_Witness ==
    /\ searchOut.called
    /\ searchOut.found
    /\ \E i, j \in ItemsWithId(searchOut.relevant_chunks, <<"x">>) :
          FGt(searchOut.relevant_chunks[i].similarity, searchOut.relevant_chunks[j].similarity)
    /\ Cardinality(ItemsWithId(searchOut.unique_chunks_list, <<"x">>)) = 1
    /\ Len(searchOut.relevant_chunks) > TopK

\* C5: the result holds only matches with score >= threshold, at most TopK of
\* them, in descending score order with equal scores in encounter order.
C5_RankedResult ==
    searchOut.called =>
        LET result == searchOut.unique_chunks_list
        IN  /\ Len(result) <= TopK
            /\ \A i \in DOMAIN result :
                  /\ FGe(result[i].similarity, searchThreshold)
                  /\ result[i].encounter \in DOMAIN searchOut.scored
                  /\ result[i] = searchOut.scored[result[i].encounter]
            /\ \A i, j \in DOMAIN result :
                  i < j => /\ FGe(result[i].similarity, result[j].similarity)
                           /\ FEq(result[i].similarity, result[j].similarity)
                                 => result[i].encounter < result[j].encounter

\* more than TopK matches, some chunk below the threshold, a full result that
\* holds equal scores
C5_Witness ==
    /\ searchOut.called
    /\ Len(searchOut.relevant_chunks) > TopK
    /\ Len(searchOut.scored) > Len(searchOut.relevant_chunks)
    /\ Len(searchOut.unique_chunks_list) = TopK
    /\ searchOut.unique_chunks_list[1].chunk.id = <<"x">>

(***************************************************************************)
(* C10                                                                     *)
(***************************************************************************)
TagsOf(chunk) == ToSet(chunk.collection_tags) \cup ToSet(chunk.search_tags)

JaccardOfWordSets(Q, C) ==
    IF Q = {} \/ C = {} THEN FZero
    ELSE <<Cardinality(Q \cap C), Cardinality(Q \cup C)>>

\* C10: a query that starts with filename: or source: scores a chunk 1.0 when
\* the query is one of its tags, 0.8 when it equals one only ignoring case,
\* 0 otherwise, whatever the content; any other query scores the Jaccard
\* ratio against the content, whatever the tags.
C10_ScoreModes ==
    searchOut.called =>
        LET q == searchQuery
            prefixed == q # <<>> /\ q[1] \in {"filename:", "source:"}
        IN  /\ \A i \in DOMAIN searchOut.scored :
                  LET chunk == searchOut.scored[i].chunk
                      sim == searchOut.scored[i].similarity
                  IN  IF prefixed
                      THEN /\ q \in TagsOf(chunk) => sim = <<1, 1>>
                           /\ (q \notin TagsOf(chunk)
                               /\ \E t \in TagsOf(chunk) : Lower(t) = Lower(q))
                                 => sim = <<4, 5>>
                           /\ (\A t \in TagsOf(chunk) : Lower(t) # Lower(q)) => FEq(sim, FZero)
                      ELSE FEq(sim, JaccardOfWordSets(WordSet(q), WordSet(chunk.content)))
            /\ \A i, j \in DOMAIN searchOut.scored :
                  LET a == searchOut.scored[i]
                      b == searchOut.scored[j]
                  IN  /\ (prefixed /\ TagsOf(a.chunk) = TagsOf(b.chunk))
                            => a.similarity = b.similarity
                      /\ (~prefixed /\ a.chunk.content = b.chunk.content)
                            => a.similarity = b.similarity

\* a source: query that matches one chunk's tag only ignoring case and another
\* chunk's tag exactly, next to a chunk it does not match
C10_Witness ==
    /\ searchOut.called
    /\ searchQuery = <<"source:", "F.html">>
    /\ \E i, j, k \in DOMAIN searchOut.scored :
          /\ searchOut.scored[i].similarity = <<4, 5>>
          /\ searchOut.scored[j].similarity = <<1, 1>>
          /\ searchOut.scored[k].similarity = FZero
          /\ searchOut.scored[k].chunk.content = searchOut.scored[i].chunk.content

(***************************************************************************)
(* C1, C2                                                                  *)
(***************************************************************************)
\* C1: for every non-empty HTML string, parse_html_sections returns a list
\* with at least one chunk and never raises to the caller, whichever cascade
\* step is taken and whichever internal step fails.
C1_AtLeastOneChunkNeverRaises ==
    parseOut.called => ~parseOut.raised /\ Len(parseOut.chunks) >= 1

\* C2: the chunks one parse call returns, on every path, have pairwise
\* distinct ids, and their chunk_index values in list order are 0, 1, ..., n-1.
C2_DistinctIdsContiguousIndex ==
    (parseOut.called /\ ~parseOut.raised) =>
        /\ \A i, j \in DOMAIN parseOut.chunks :
              i # j => parseOut.chunks[i].id # parseOut.chunks[j].id
        /\ \A i \in DOMAIN parseOut.chunks : parseOut.chunks[i].chunk_index = i - 1

(***************************************************************************)
(* C3                                                                      *)
(***************************************************************************)
\* the units html.escape replaces
RawSpecial == {"<script>", "<SCRIPT>", "<", ">", "&", "\"", "'"}
HasRawSpecial(text) == \E i \in DOMAIN text : text[i] \in RawSpecial

\* C3: in every renderer (search result, hierarchy, legacy node tree,
\* generator template) every piece of text that comes from input data is in
\* the output document only in HTML-escaped form: no piece put in at an
\* interpolation site holds a raw <, >, &, quote or <script> tag.
C3_AllTextEscaped ==
    renderOut.called =>
        \A i \in DOMAIN renderOut.html :
            renderOut.html[i].src # "template"
                => ~HasRawSpecial(renderOut.html[i].text)

(***************************************************************************)
(* C11                                                                     *)
(***************************************************************************)
\* the bucket a result belongs in: the one its metadata.category names
\* (letter case aside), community when the key is absent or names none
ExpectedBucket(item) ==
    LET metadata == item.chunk.metadata
    IN  IF /\ "category" \in DOMAIN metadata
           /\ \E b \in DOMAIN Categories : LowerChar(metadata.category) = Categories[b]
        THEN LowerChar(metadata.category)
        ELSE "community"

\* the entries rendered inside the branch of a category: the section pieces
\* between the opening and the closing markup of that branch
RenderedEntries(html, category) ==
    LET opening == {a \in DOMAIN html : html[a] = Markup(<<"branch", category>>)}
        closing == {z \in DOMAIN html : html[z] = Markup(<<"/branch", category>>)}
    IN  {i \in DOMAIN html :
            /\ html[i].src = "section"
            /\ \E a \in opening, z \in closing : a < i /\ i < z}

\* C11: every deduplicated result is in exactly one of the four buckets, the
\* one named by its metadata.category, or community when the category is
\* absent or none of the four; every bucket is in descending score order;
\* at most 8 entries of a bucket are rendered.
C11_FourBuckets ==
    (searchOut.called /\ searchOut.found) =>
        LET result == searchOut.unique_chunks_list
            buckets == searchOut.categories
        IN  /\ \A r \in DOMAIN result, b \in DOMAIN Categories :
                  LET entries == ItemsWithId(buckets[b], result[r].chunk.id)
                  IN  IF Categories[b] = ExpectedBucket(result[r])
                      THEN /\ Cardinality(entries) = 1
                           /\ \A e \in entries : buckets[b][e] = result[r]
                      ELSE entries = {}
            /\ \A b \in DOMAIN Categories :
                  /\ IdsOf(buckets[b]) \subseteq IdsOf(result)
                  /\ \A i, j \in DOMAIN buckets[b] :
                        i < j => FGe(buckets[b][i].similarity, buckets[b][j].similarity)
                  /\ Cardinality(RenderedEntries(searchOut.html, Categories[b]))
                        = Min(Len(buckets[b]), 8)

\* a bucket with more than 8 entries, and a result without a category key
\* in the community bucket
C11_Witness ==
    /\ searchOut.called
    /\ searchOut.found
    /\ \E b \in DOMAIN Categories : Len(searchOut.categories[b]) > 8
    /\ \E i \in DOMAIN searchOut.categories[4] :
          "category" \notin DOMAIN searchOut.categories[4][i].chunk.metadata

(***************************************************************************)
(* C12, C13                                                                *)
(***************************************************************************)
LevelOfChunk(chunk) == MetadataGet(chunk.metadata, "level", 1)
ChunksAtLevel(chunks, level) == {i \in DOMAIN chunks : LevelOfChunk(chunks[i]) = level}
\* the chunk at a level that has n chunks of that level before it
NthAtLevel(chunks, level, n) ==
    CHOOSE i \in ChunksAtLevel(chunks, level) :
        Cardinality({j \in ChunksAtLevel(chunks, level) : j < i}) = n

\* C12: the conversion gives exactly one phase per distinct metadata.level
\* among the chunks it groups - all the chunks it is handed, a missing level
\* counting as 1 - in ascending numeric level order; a phase's title is the
\* section of the first chunk seen at its level and its topics are that
\* level's chunks in encounter order.
C12_PhasePerLevel ==
    convertOut.called =>
        LET chunks == convertChunks
            phases == convertOut.phases
            levels == {LevelOfChunk(chunks[i]) : i \in DOMAIN chunks}
        IN  /\ Len(phases) = Cardinality(levels)
            /\ \A level \in levels :
                  LET phase == phases[Cardinality({l \in levels : l < level}) + 1]
                  IN  /\ phase.title = chunks[NthAtLevel(chunks, level, 0)].metadata.section
                      /\ Len(phase.topics) = Cardinality(ChunksAtLevel(chunks, level))
                      /\ \A t \in DOMAIN phase.topics :
                            LET chunk == chunks[NthAtLevel(chunks, level, t - 1)]
                            IN  /\ phase.topics[t].description = chunk.content
                                /\ phase.topics[t].title = chunk.metadata.section

\* three chunks at levels 10, 2, 2: two phases, the first with two topics
C12_Witness ==
    /\ convertOut.called
    /\ Len(convertChunks) = 3
    /\ LevelOfChunk(convertChunks[1]) = 10
    /\ LevelOfChunk(convertChunks[2]) = 2
    /\ LevelOfChunk(convertChunks[3]) = 2
    /\ Len(convertOut.phases) = 2
    /\ Len(convertOut.phases[1].topics) = 2

TopicCount(phases) == Len(Flatten([i \in DOMAIN phases |-> phases[i].topics]))

\* C13: a chunk classified as a prerequisite is reported in prerequisites
\* and is not also a topic of a phase; the topics over all phases are as
\* many as the chunks that are not prerequisites.
C13_PrerequisitesNotTopics ==
    convertOut.called =>
        LET chunks == convertChunks
            phases == convertOut.phases
        IN  /\ \A i \in DOMAIN chunks :
                  IsPrerequisite(chunks[i]) =>
                      /\ chunks[i].content \in ToSet(convertOut.prerequisites)
                      /\ \A p \in DOMAIN phases : \A t \in DOMAIN phases[p].topics :
                            phases[p].topics[t].description # chunks[i].content
            /\ TopicCount(phases)
                  = Cardinality({i \in DOMAIN chunks : ~IsPrerequisite(chunks[i])})

(***************************************************************************)
(* C14, C15, C16                                                           *)
(***************************************************************************)
OfType(chunks, type) ==
    SelectSeq(chunks, LAMBDA c : "type" \in DOMAIN c.metadata /\ c.metadata.type = type)

\* the branch divs of a round-trip document, and the category its level
\* node names in its class
ScenarioLevels == {levels \in StringsUpTo(ScenarioKinds, MaxLevels) : levels # <<>>}
NamedCategory(level_branch) == level_branch.children[1].class[2][1]

\* C14: for one main-branches container holding k branch divs, each with one
\* level node and one nested text block of at least 3 visible characters,
\* parse returns exactly k level chunks and k branch chunks, 2k chunks in
\* all; the level chunks carry the category named in their level node's
\* class and their level indices are 1..k in document order.
C14_RoundTrip ==
    \A levels \in ScenarioLevels, pretty \in BOOLEAN :
        (/\ parseOut.called
         /\ parseFault = NoFault
         /\ parseDoc = MainBranchesDocument(levels, pretty)) =>
            LET chunks == parseOut.chunks
                k == Len(levels)
                level_chunks == OfType(chunks, "level")
            IN  /\ Len(chunks) = 2 * k
                /\ Len(level_chunks) = k
                /\ Len(OfType(chunks, "branch")) = k
                /\ \A i \in 1 .. k :
                      /\ level_chunks[i].metadata.level = i
                      /\ level_chunks[i].metadata.category = NamedCategory(levels[i])

\* the part of C14 that holds: the container's children are the branch divs
\* alone and every text block is a div with a sub-branch class
C14_CompactSubBranchBlocks ==
    \A levels \in ScenarioLevels :
        (/\ parseOut.called
         /\ parseFault = NoFault
         /\ parseDoc = MainBranchesDocument(levels, FALSE)
         /\ \A i \in DOMAIN levels : levels[i].children[2].class # <<>>) =>
            LET chunks == parseOut.chunks
                k == Len(levels)
                level_chunks == OfType(chunks, "level")
            IN  /\ Len(chunks) = 2 * k
                /\ Len(level_chunks) = k
                /\ Len(OfType(chunks, "branch")) = k
                /\ \A i \in 1 .. k :
                      /\ level_chunks[i].metadata.level = i
                      /\ level_chunks[i].metadata.category = NamedCategory(levels[i])

\* the text of the fallback chunk for a document: its visible text, cut
\* after 500 characters, or the placeholder when there is none
ExpectedFallbackContent(soup) ==
    LET text == Strip(get_text(soup))
    IN  IF text = <<>> THEN NoContentText
        ELSE IF Len(text) > FallbackContentCap
             THEN SubSeq(text, 1, FallbackContentCap) \o <<"...">>
             ELSE text

\* no cascade pattern finds a candidate, the section splitter finds no
\* fragment, and the document has no visible text
NothingToParse(html_content) ==
    /\ ~html_content.rejected
    /\ ~MainBranches(html_content.soup).found
    /\ _parse_basic_sections(html_content.soup) = <<>>
    /\ Strip(get_text(html_content.soup)) = <<>>

\* C15: parsing a document in which no cascade pattern finds a branch
\* candidate, the section splitter finds no fragment and there is no visible
\* text returns exactly one chunk, of type fallback, with chunk_index 0 and
\* the fixed placeholder as content.
C15_EmptyDocumentFallback ==
    (parseOut.called /\ NothingToParse(parseDoc)) =>
        /\ ~parseOut.raised
        /\ Len(parseOut.chunks) = 1
        /\ parseOut.chunks[1].metadata.type = "fallback"
        /\ parseOut.chunks[1].chunk_index = 0
        /\ parseOut.chunks[1].content = NoContentText

\* <html><body></body></html> has been parsed
C15_Witness ==
    /\ parseOut.called
    /\ NothingToParse(parseDoc)
    /\ parseDoc.soup.children # <<>>
    /\ parseDoc.soup.children[1].name = "html"
    /\ parseFault = NoFault
    /\ Len(parseOut.chunks) = 1

\* a chunk of the structured pass or of the section splitter
IsContentChunk(chunk) ==
    \/ "type" \notin DOMAIN chunk.metadata
    \/ chunk.metadata.type \in {"level", "branch", "sub_branch"}

\* C16: whenever a parse call ends with no level, branch, sub_branch or
\* flat-section chunk - also when branch candidates were found and every one
\* was skipped or failed - and no exception left the structured pass, the
\* result is exactly one chunk of type fallback whose content is the plain
\* text of the whole document, cut after 500 characters.
C16_EmptyResultFallback ==
    (/\ parseOut.called
     /\ ~parseOut.raised
     /\ \A i \in DOMAIN parseOut.chunks :
           /\ ~IsContentChunk(parseOut.chunks[i])
           /\ parseOut.chunks[i].metadata.type # "error") =>
        /\ Len(parseOut.chunks) = 1
        /\ parseOut.chunks[1].metadata.type = "fallback"
        /\ parseOut.chunks[1].content = ExpectedFallbackContent(parseDoc.soup)

(***************************************************************************)
(* C18, C19, C20                                                           *)
(***************************************************************************)
\* the structured pass runs on the document and an exception leaves its
\* per-level scopes: one raised before the level loop, or one raised by a
\* per-element handler
TotalParseFailure(html_content, fault) ==
    /\ ~html_content.rejected
    /\ fault.at # "cascade"
    /\ MainBranches(html_content.soup).found
    /\ \/ fault.at = "title"
       \/ ParseLevels(fault, MainBranches(html_content.soup).items, 0,
                      [chunks |-> <<>>, chunk_index |-> 0, escaped |-> FALSE]).escaped

\* C18: when an exception leaves the per-level scopes of the structured
\* pass, parse returns a single chunk of type error with chunk_index 0 -
\* the chunks collected before the exception are not returned with it - and
\* nothing reaches the caller.
C18_ErrorChunkAlone ==
    (parseOut.called /\ TotalParseFailure(parseDoc, parseFault)) =>
        /\ ~parseOut.raised
        /\ Len(parseOut.chunks) = 1
        /\ parseOut.chunks[1].metadata.type = "error"
        /\ parseOut.chunks[1].chunk_index = 0

IsStructureChunk(chunk) ==
    /\ "type" \in DOMAIN chunk.metadata
    /\ chunk.metadata.type \in {"level", "branch", "sub_branch"}

\* the chunk is one of the element the planned exception is raised in
InFailingElement(fault, chunk) ==
    LET metadata == chunk.metadata
    IN  /\ IsStructureChunk(chunk)
        /\ metadata.level = fault.level + 1
        /\ fault.at \in {"branch", "sub"} =>
              "branch" \in DOMAIN metadata /\ metadata.branch = fault.branch + 1
        /\ fault.at = "sub" =>
              "sub" \in DOMAIN metadata /\ metadata.sub = fault.sub + 1

WithoutIndex(chunks) == [i \in DOMAIN chunks |-> [chunks[i] EXCEPT !.chunk_index = 0]]

\* C19: an exception raised while one level, branch or sub-branch is
\* processed, and caught by that element's handler, skips only that element:
\* the chunks of all other elements, before and after it, are returned, in
\* order, with the ids, contents and metadata they have in a run without the
\* exception.
C19_OnlyFailingElementSkipped ==
    (/\ parseOut.called
     /\ ~parseOut.raised
     /\ parseFault.at \in {"level", "branch", "sub"}
     /\ ~parseFault.warning) =>
        LET reference == parse_html_sections(parseDoc, NoFault).chunks
        IN  WithoutIndex(SelectSeq(parseOut.chunks, IsStructureChunk))
              = WithoutIndex(SelectSeq(reference,
                    LAMBDA c : IsStructureChunk(c) /\ ~InFailingElement(parseFault, c)))

\* a branch of the first level failed and the second level was still parsed
C19_Witness ==
    /\ parseOut.called
    /\ ~parseOut.raised
    /\ parseFault.at = "branch"
    /\ parseFault.level = 0
    /\ ~parseFault.warning
    /\ Len(parseOut.chunks) < Len(parse_html_sections(parseDoc, NoFault).chunks)
    /\ \E i \in DOMAIN parseOut.chunks :
          /\ parseOut.chunks[i].metadata.type = "level"
          /\ parseOut.chunks[i].metadata.level > 1

\* the branch candidates of a level (lines 293-301) and the nested
\* candidates of a branch (lines 338-342)
BranchCandidates(level_branch) ==
    LET marked == find_all(level_branch, {"div"}, ClassPattern({"branch", "sub"}))
        divs == find_all(level_branch, {"div"}, NoClass)
    IN  IF marked # <<>> THEN marked
        ELSE IF divs # <<>> THEN divs
        ELSE find_all(level_branch, {"div", "section", "p"}, NoClass)
SubBranchCandidates(branch) ==
    LET marked == find_all(branch, {"div"}, ClassPattern({"sub", "detail"}))
    IN  Take(IF marked # <<>> THEN marked ELSE find_all(branch, {"div", "p"}, NoClass),
             SubBranchCap)
VisibleText(node) == Strip(get_text(node))
HasChunk(id) == \E i \in DOMAIN parseOut.chunks : parseOut.chunks[i].id = id

\* C20: parse emits no branch chunk for a candidate element whose visible
\* text has fewer than 3 characters, an element with empty visible text
\* included, and no sub_branch chunk for a nested element whose visible text
\* has fewer than 3 characters.
C20_ShortTextSkipped ==
    (parseOut.called /\ ~parseDoc.rejected /\ MainBranches(parseDoc.soup).found) =>
        LET items == MainBranches(parseDoc.soup).items
        IN  \A l \in DOMAIN items :
                items[l].kind = "tag" =>
                    \A b \in DOMAIN BranchCandidates(items[l]) :
                        LET branch == BranchCandidates(items[l])[b]
                        IN  /\ Len(VisibleText(branch)) < MinTitleLen =>
                                  ~HasChunk(RoadmapId \o <<"_branch_">> \o Dec(l - 1)
                                                \o <<"_">> \o Dec(b - 1))
                            /\ \A k \in DOMAIN SubBranchCandidates(branch) :
                                  Len(VisibleText(SubBranchCandidates(branch)[k])) < MinTitleLen =>
                                      ~HasChunk(RoadmapId \o <<"_sub_">> \o Dec(l - 1)
                                                    \o <<"_">> \o Dec(b - 1)
                                                    \o <<"_">> \o Dec(k - 1))

\* the sub-branch half of C20 alone
C20_ShortSubBranchSkipped ==
    (parseOut.called /\ ~parseDoc.rejected /\ MainBranches(parseDoc.soup).found) =>
        LET items == MainBranches(parseDoc.soup).items
        IN  \A l \in DOMAIN items :
                items[l].kind = "tag" =>
                    \A b \in DOMAIN BranchCandidates(items[l]) :
                        LET branch == BranchCandidates(items[l])[b]
                        IN  \A k \in DOMAIN SubBranchCandidates(branch) :
                                Len(VisibleText(SubBranchCandidates(branch)[k])) < MinTitleLen =>
                                    ~HasChunk(RoadmapId \o <<"_sub_">> \o Dec(l - 1)
                                                  \o <<"_">> \o Dec(b - 1)
                                                  \o <<"_">> \o Dec(k - 1))

(***************************************************************************)
(* C17                                                                     *)
(***************************************************************************)
ChangeRecords ==
    SelectSeq(storeEffects, LAMBDA e : e.kind = "change_log" /\ e.change_type = "update")
NodeMutations == SelectSeq(storeEffects, LAMBDA e : e.kind = "upsert")

\* the place among the effects of the n-th effect of a kind
EffectPlace(kind, n) ==
    CHOOSE p \in DOMAIN storeEffects :
        /\ storeEffects[p].kind = kind
        /\ Cardinality({q \in 1 .. p : storeEffects[q].kind = kind}) = n

\* C17: on a store with a logger attached, after any sequence of update_node
\* calls the change records of type update correspond one to one and in
\* order with the mutations applied to the store: each carries the node id,
\* the data replaced and the new data of its mutation and is emitted after
\* it; a call that returns False leaves no change record with validation
\* status success.
C17_ChangeLogMatchesMutations ==
    storeLogger =>
        /\ Len(ChangeRecords) = Len(NodeMutations)
        /\ \A i \in DOMAIN ChangeRecords \cap DOMAIN NodeMutations :
              /\ ChangeRecords[i].node_id = NodeMutations[i].node_id
              /\ ChangeRecords[i].old_data = NodeMutations[i].replaced
              /\ \A k \in DOMAIN ChangeRecords[i].new_data :
                    ChangeRecords[i].new_data[k] = NodeMutations[i].payload[k]
              /\ EffectPlace("change_log", i) > EffectPlace("upsert", i)
        /\ \A call \in DOMAIN storeReturns :
              ~storeReturns[call] =>
                  \A p \in DOMAIN storeEffects :
                      ~(/\ storeEffects[p].kind = "change_log"
                        /\ storeEffects[p].call = call
                        /\ storeEffects[p].validation_status = "success")

\* the parts of C17 that hold: every mutation has its one record, with the
\* node id, the data replaced and the new field values
C17_EveryMutationRecorded ==
    storeLogger =>
        \A i \in DOMAIN NodeMutations :
            LET records == SelectSeq(ChangeRecords,
                               LAMBDA e : e.call = NodeMutations[i].call)
            IN  /\ Len(records) = 1
                /\ records[1].node_id = NodeMutations[i].node_id
                /\ records[1].old_data = NodeMutations[i].replaced
                /\ \A k \in DOMAIN records[1].new_data :
                      records[1].new_data[k] = NodeMutations[i].payload[k]

(***************************************************************************)
(* C21, C22                                                                *)
(***************************************************************************)
\* the element a level's title and category are taken from (lines 245-256)
LevelNode(level_branch) ==
    LET marked == find(level_branch, {"div", "h2"}, ClassPattern({"level", "branch"}))
        first == find(level_branch, {"div", "h2"}, NoClass)
    IN  IF marked.kind # "none" THEN marked
        ELSE IF first.kind # "none" THEN first
        ELSE level_branch

\* a class attribute names one of the keywords, in any letter case
ClassNames(classes, keywords) ==
    \E i \in DOMAIN classes : \E k \in DOMAIN classes[i] :
        LowerChar(classes[i][k]) \in keywords

\* C21: the category of a level is the first match, in the order beginner,
\* advanced, intermediate, of the English or Korean keyword in its element's
\* class attribute, letter case ignored, and community when none matches;
\* every branch and sub_branch chunk emitted under the level carries the
\* category of the level's chunk.
C21_CategoryByFirstMatch ==
    (parseOut.called /\ ~parseDoc.rejected /\ MainBranches(parseDoc.soup).found) =>
        LET items == MainBranches(parseDoc.soup).items
            levels == OfType(parseOut.chunks, "level")
        IN  /\ \A i \in DOMAIN levels :
                  LET classes == LevelNode(items[levels[i].metadata.level]).class
                      category == levels[i].metadata.category
                  IN  /\ ClassNames(classes, {"beginner", "gicho"}) => category = "beginner"
                      /\ (/\ ~ClassNames(classes, {"beginner", "gicho"})
                          /\ ClassNames(classes, {"advanced", "gogeup"}))
                            => category = "advanced"
                      /\ (/\ ~ClassNames(classes, {"beginner", "gicho", "advanced", "gogeup"})
                          /\ ClassNames(classes, {"intermediate", "junggeup"}))
                            => category = "intermediate"
                      /\ ~ClassNames(classes, {"beginner", "gicho", "advanced", "gogeup",
                                               "intermediate", "junggeup"})
                            => category = "community"
            /\ \A j \in DOMAIN parseOut.chunks :
                  LET chunk == parseOut.chunks[j]
                  IN  (IsStructureChunk(chunk) /\ chunk.metadata.type # "level") =>
                          \E i \in DOMAIN levels :
                              /\ levels[i].metadata.level = chunk.metadata.level
                              /\ levels[i].metadata.category = chunk.metadata.category

\* a level whose class names intermediate and advanced came out advanced,
\* with a branch chunk under it
C21_Witness ==
    /\ parseOut.called
    /\ ~parseDoc.rejected
    /\ MainBranches(parseDoc.soup).found
    /\ \E i \in DOMAIN parseOut.chunks :
          /\ parseOut.chunks[i].metadata.type = "level"
          /\ parseOut.chunks[i].metadata.category = "advanced"
          /\ ClassNames(LevelNode(MainBranches(parseDoc.soup).items[1]).class,
                        {"intermediate"})
    /\ \E i \in DOMAIN parseOut.chunks :
          /\ parseOut.chunks[i].metadata.type = "branch"
          /\ parseOut.chunks[i].metadata.category = "advanced"

\* C22: every chunk parse returns, on every path, has metadata holding a
\* section title, a level index of at least 1, a type tag and a category,
\* and the category is one of beginner, intermediate, advanced, community,
\* unknown.
C22_MetadataKeys ==
    (parseOut.called /\ ~parseOut.raised) =>
        \A i \in DOMAIN parseOut.chunks :
            LET metadata == parseOut.chunks[i].metadata
            IN  /\ {"section", "level", "type", "category"} \subseteq DOMAIN metadata
                /\ metadata.level >= 1
                /\ metadata.category \in {"beginner", "intermediate", "advanced",
                                          "community", "unknown"}

(***************************************************************************)
(* C23                                                                     *)
(***************************************************************************)
\* the lower-cased words of a chunk's metadata keywords and tools
MetadataWords(metadata) ==
    {LowerChar(w) : w \in ToSet(MetadataGet(metadata, "keywords", <<>>))
                          \cup ToSet(MetadataGet(metadata, "tools", <<>>))}

\* the search tags the content alone gives
ContentSearchTags(content) == ToSet(PatternTags(TechPatterns, Lower(content)))

\* C23: suggest_tags_for_chunk is a function of its two arguments: in any
\* two session states equal (content, metadata) give equal collection and
\* search tag sets; the search tags taken from the metadata keywords and
\* tools are exactly those in the fixed suggestion vocabulary; and a call
\* changes nothing in the session.
C23_SuggestTagsPure ==
    /\ \A i, j \in DOMAIN suggestCalls :
          (/\ suggestCalls[i].content = suggestCalls[j].content
           /\ suggestCalls[i].metadata = suggestCalls[j].metadata)
            => suggestCalls[i].suggested = suggestCalls[j].suggested
    /\ \A i \in DOMAIN suggestCalls :
          LET call == suggestCalls[i]
          IN  /\ call.session_after = call.session_before
              /\ \A w \in MetadataWords(call.metadata) :
                    w \in TagSuggestions => <<w>> \in call.suggested.search_tags
              /\ \A tag \in call.suggested.search_tags :
                    \/ tag \in ContentSearchTags(call.content)
                    \/ /\ tag[1] \in MetadataWords(call.metadata)
                       /\ tag[1] \in TagSuggestions

\* the same chunk was offered before and after a document was stored, with
\* a keyword inside and one outside the vocabulary
C23_Witness ==
    \E i, j \in DOMAIN suggestCalls :
        /\ i # j
        /\ suggestCalls[i].content = suggestCalls[j].content
        /\ suggestCalls[i].metadata = suggestCalls[j].metadata
        /\ suggestCalls[i].session_before # suggestCalls[j].session_before
        /\ <<"react">> \in suggestCalls[i].suggested.search_tags
        /\ "x" \in MetadataWords(suggestCalls[i].metadata)

(***************************************************************************)
(* C24                                                                     *)
(***************************************************************************)
\* the ids of the nodes of a forest, in pre-order
RECURSIVE ForestIds(_)
ForestIds(forest) ==
    Flatten([i \in DOMAIN forest |->
                <<forest[i].node.id>> \o ForestIds(forest[i].children)])

\* the children of every node of a forest are in the order of their order field
RECURSIVE ChildrenOrdered(_)
ChildrenOrdered(forest) ==
    \A i \in DOMAIN forest :
        /\ \A a, b \in DOMAIN forest[i].children :
              a < b => forest[i].children[a].node.order <= forest[i].children[b].node.order
        /\ ChildrenOrdered(forest[i].children)

\* a node's parent id is null or names no node of the collection
ParentMissing(nodes, n) == \A j \in DOMAIN nodes : nodes[j].id # n.parent_id

\* following parent ids from any node ends at a node whose parent is missing
RECURSIVE ReachesRoot(_, _, _)
ReachesRoot(nodes, n, steps) ==
    \/ ParentMissing(nodes, n)
    \/ /\ steps > 0
       /\ \E j \in DOMAIN nodes :
             nodes[j].id = n.parent_id /\ ReachesRoot(nodes, nodes[j], steps - 1)

\* C24: in the forest built from a flat node collection every node whose
\* parent id is null or names no node of the collection is a root, children
\* are in the order of their order field, and every node of the collection
\* appears exactly once.
C24_ForestOfAllNodes ==
    (/\ hierarchyOut.called
     /\ \A i \in DOMAIN hierarchyNodes :
           ReachesRoot(hierarchyNodes, hierarchyNodes[i], Len(hierarchyNodes))) =>
        LET forest == hierarchyOut.hierarchy
            ids == ForestIds(forest)
        IN  /\ \A i \in DOMAIN hierarchyNodes :
                  ParentMissing(hierarchyNodes, hierarchyNodes[i]) =>
                      \E r \in DOMAIN forest : forest[r].node = hierarchyNodes[i]
            /\ ChildrenOrdered(forest)
            /\ \A i \in DOMAIN hierarchyNodes :
                  Cardinality({p \in DOMAIN ids : ids[p] = hierarchyNodes[i].id}) = 1

\* the part of C24 that holds: the nodes with a null parent id are the
\* roots, children are in the order of their order field, and no node
\* appears twice
C24_ForestOfNullRoots ==
    hierarchyOut.called =>
        LET forest == hierarchyOut.hierarchy
            ids == ForestIds(forest)
        IN  /\ [r \in DOMAIN forest |-> forest[r].node]
                  = SelectSeq(hierarchyNodes, LAMBDA n : n.parent_id = NoParent)
            /\ ChildrenOrdered(forest)
            /\ \A p, q \in DOMAIN ids : p # q => ids[p] # ids[q]

(***************************************************************************)
(* C25: embedding text and vector of every stored point                    *)
(***************************************************************************)
\* C25: after any sequence of store_nodes and update_node calls, every point
\* of the vector store has a payload whose embedding_text is the recipe
\* applied to the payload's current field values, and a vector derived from
\* that same text; the node-based and the dict-based recipe agree.
C25_EmbeddingTextCurrent ==
    \A node_id \in DOMAIN storePoints :
        LET point == storePoints[node_id]
        IN  /\ point.payload.embedding_text
                  = _create_embedding_text_from_dict(point.payload)
            /\ point.vector = Encode(point.payload.embedding_text)
            /\ _create_embedding_text(point.payload)
                  = _create_embedding_text_from_dict(point.payload)

\* what the code does keep: the vector is derived from the recipe applied to
\* the payload's current field values, and the two recipes agree
C25_VectorCurrent ==
    \A node_id \in DOMAIN storePoints :
        LET point == storePoints[node_id]
        IN  /\ point.vector = Encode(_create_embedding_text_from_dict(point.payload))
            /\ _create_embedding_text(point.payload)
                  = _create_embedding_text_from_dict(point.payload)

(***************************************************************************)
(* C30: get_subtree after updates of parent_id                             *)
(***************************************************************************)
\* C30: get_subtree(id) terminates and returns a finite tree in every store
\* state reached by store_nodes followed by any sequence of update_node
\* calls, also those that change a parent_id.
C30_SubtreeTerminates ==
    storeSubtree.called => ~storeSubtree.raised

(***************************************************************************)
(* C28, C29: the batch-streaming hand-off                                  *)
(***************************************************************************)
\* C28: the consumer loop eventually terminates in every execution, whether
\* the subprocess exits normally, fails to start, or its output stream
\* raises.
C28_ConsumerTerminates == <>(consumerPc = "done")

\* what the code does give: when nothing raises in run_and_stream, the loop
\* ends
C28_TerminatesWhenNothingRaises ==
    (streamFault = NoStreamFault) ~> (consumerPc = "done")

\* and once run_and_stream has raised, the loop never ends
C28_LoopsForeverAfterRaise ==
    producerPc = "raised" => (consumerPc # "done" /\ EndMarker \notin ToSet(streamQ))

\* the lines run_and_stream has put into q so far
LinesPut == SubSeq(streamOutput, 1, streamRead)

\* the lines waiting in q
LinesQueued == SelectSeq(streamQ, LAMBDA item : item # EndMarker)

\* C29: under every interleaving of the thread and the loop, the lines put
\* into q before the end marker reach log_lines exactly once and in the
\* order they were put, and when the loop is left log_lines holds all of
\* them.
C29_LogInProductionOrder ==
    /\ log_lines \o LinesQueued = LinesPut
    /\ consumerPc = "done" => (log_lines = LinesPut /\ LinesPut = streamOutput)

\* the loop is left with a log of different lines
C29_Witness ==
    /\ consumerPc = "done"
    /\ Len(log_lines) >= 2
    /\ log_lines[1] # log_lines[2]

(***************************************************************************)
(* C26, C27: the node list of the legacy parser                            *)
(***************************************************************************)
\* a node list that is one rooted tree in list order
IsRootedTree(nodes) ==
    /\ Cardinality({i \in DOMAIN nodes : nodes[i].parent_id = NoParent}) = 1
    /\ nodes[1].parent_id = NoParent
    /\ nodes[1].depth = 0
    /\ \A i \in 2 .. Len(nodes) :
          \E j \in 1 .. i - 1 : /\ nodes[j].id = nodes[i].parent_id
                                /\ nodes[j].depth = nodes[i].depth - 1
    /\ \A i \in 1 .. Len(nodes) - 1 : nodes[i].order < nodes[i + 1].order

\* C26: after any number of parse() calls on one parser, the returned list
\* is a single rooted tree: one node without parent, first in the list with
\* depth 0; every other node's parent earlier in the list and one level
\* up; order values strictly increasing along the list.
C26_SingleRootedTree == legacyCalls >= 1 => IsRootedTree(legacyNodes)

\* what the code gives: the list returned by the first parse() is such a tree
C26_FirstParseIsTree == legacyCalls = 1 => IsRootedTree(legacyNodes)

\* the detail-node, resource-node and book-node elements of the document
DetailElements ==
    ToSet(SelectSeq(PathsBelow(legacyDoc), LAMBDA p :
        /\ IsTag(At(legacyDoc, p), {"div"})
        /\ \/ InClasses(At(legacyDoc, p), "detail-node")
           \/ InClasses(At(legacyDoc, p), "resource-node")
           \/ InClasses(At(legacyDoc, p), "book-node")))

\* the sub-node elements of the document
SubNodeElements ==
    ToSet(SelectSeq(PathsBelow(legacyDoc), LAMBDA p :
        IsTag(At(legacyDoc, p), {"div"}) /\ InClasses(At(legacyDoc, p), "sub-node")))

\* the path of the parent element
ParentPath(p) == SubSeq(p, 1, Len(p) - 1)

\* element c is a details container that directly follows sub-node s
DirectlyFollows(c, s) ==
    /\ c # <<>>
    /\ IsTag(At(legacyDoc, c), {"div"})
    /\ InClasses(At(legacyDoc, c), "sub-branches")
    /\ ParentPath(c) = ParentPath(s)
    /\ c[Len(c)] = s[Len(s)] + 1

\* the nodes whose parent is a sub_branch node made from sub-node s
ChildrenOfSubNode(s) ==
    {i \in DOMAIN legacyNodes :
        \E k \in DOMAIN legacyNodes : /\ legacyNodes[k].node_type = "sub_branch"
                                      /\ legacyNodes[k].element = s
                                      /\ legacyNodes[i].parent_id = legacyNodes[k].id}

\* C27: each detail-node, resource-node or book-node element yields exactly
\* one node, whose parent is the sub-branch node of the sub-node that the
\* element's details container directly follows; a sub-node not directly
\* followed by a details container gets no children.
C27_DetailsUnderOwnSubNode ==
    legacyCalls = 1 =>
        /\ \A p \in DetailElements :
              /\ Cardinality({i \in DOMAIN legacyNodes :
                                 /\ legacyNodes[i].depth = 3
                                 /\ legacyNodes[i].element = p}) = 1
              /\ \A i \in DOMAIN legacyNodes :
                    (legacyNodes[i].depth = 3 /\ legacyNodes[i].element = p)
                        => \E s \in SubNodeElements :
                              /\ DirectlyFollows(ParentPath(p), s)
                              /\ i \in ChildrenOfSubNode(s)
        /\ \A s \in SubNodeElements :
              (~\E c \in ToSet(PathsBelow(legacyDoc)) : DirectlyFollows(c, s))
                  => ChildrenOfSubNode(s) = {}

\* what the code gives: the children of a sub-node's node are made from the
\* elements inside the first details container among the sub-node's later
\* siblings, however far away it is, one node per element that is a
\* resource-node, a book-node or a detail-node with text
C27_DetailsOfNextContainer ==
    legacyCalls = 1 =>
        \A k \in DOMAIN legacyNodes :
            legacyNodes[k].node_type = "sub_branch" =>
                LET s == legacyNodes[k].element
                    next_sibling == FindNextSiblingAt(legacyDoc, s, {"div"},
                                                      ClassToken(<<"sub-branches">>))
                    children == {i \in DOMAIN legacyNodes :
                                    legacyNodes[i].parent_id = legacyNodes[k].id}
                    inside == IF next_sibling = <<>> THEN {}
                              ELSE {p \in DetailElements :
                                       /\ Len(p) > Len(next_sibling[1])
                                       /\ SubSeq(p, 1, Len(next_sibling[1])) = next_sibling[1]
                                       /\ (InClasses(At(legacyDoc, p), "detail-node")
                                           => Strip(get_text(At(legacyDoc, p))) # <<>>)}
                IN  /\ {legacyNodes[i].element : i \in children} = inside
                    /\ Cardinality(children) = Cardinality(inside)

Spec == SpecScore
====
